---------------------------- MODULE Spec2Model ----------------------------
(***************************************************************************)
(* A model of the order pipeline of the food-delivery API (src/server.js): *)
(* the availability flag, the orders and order_items tables, the request   *)
(* handlers as sequences of turns separated by their awaits, and the       *)
(* Telegram notification dispatcher.                                       *)
(*                                                                         *)
(* JavaScript values are records [t, n, s]: t is the type tag, n the       *)
(* value of a number in hundredths (the precision of the DECIMAL(10,2)     *)
(* columns), s the characters of a string.  The sample values have at most *)
(* one decimal place, so every product of two of them is exact.            *)
(***************************************************************************)
EXTENDS Integers, Sequences, FiniteSets, TLC

Scale == 100

-----------------------------------------------------------------------------
(* JavaScript values                                                       *)

Undefined == [t |-> "undefined", n |-> 0, s |-> <<>>]
NaN       == [t |-> "nan", n |-> 0, s |-> <<>>]
Num(h)    == [t |-> "number", n |-> h, s |-> <<>>]
Str(cs)   == [t |-> "string", n |-> 0, s |-> cs]

\* The number 1
One == Num(Scale)

Digits == {"0", "1", "2", "3", "4", "5", "6", "7", "8", "9"}

DigitVal(c) ==
  CASE c = "0" -> 0 [] c = "1" -> 1 [] c = "2" -> 2 [] c = "3" -> 3
    [] c = "4" -> 4 [] c = "5" -> 5 [] c = "6" -> 6 [] c = "7" -> 7
    [] c = "8" -> 8 [] c = "9" -> 9

\* Index of the first character of cs at or after i that is not a blank.
RECURSIVE SkipBlanks(_, _)
SkipBlanks(cs, i) ==
  IF i <= Len(cs) /\ cs[i] = " " THEN SkipBlanks(cs, i + 1) ELSE i

\* Number of consecutive digits of cs starting at index i.
RECURSIVE DigitRun(_, _)
DigitRun(cs, i) ==
  IF i <= Len(cs) /\ cs[i] \in Digits THEN 1 + DigitRun(cs, i + 1) ELSE 0

\* Value of the k digits of cs starting at index i.
RECURSIVE DigitsValue(_, _, _)
DigitsValue(cs, i, k) ==
  IF k = 0 THEN 0
  ELSE 10 * DigitsValue(cs, i, k - 1) + DigitVal(cs[i + k - 1])

\* Hundredths denoted by the k fraction digits of cs starting at index i.
FractionValue(cs, i, k) ==
  IF k = 0 THEN 0
  ELSE IF k = 1 THEN 10 * DigitVal(cs[i])
  ELSE 10 * DigitVal(cs[i]) + DigitVal(cs[i + 1])

\* The longest prefix of cs (after leading blanks) that is a decimal literal:
\* an optional sign, digits, and optionally a point and digits.  ok is FALSE
\* when there is no digit; end is the index after the literal.  The scan
\* passes what it has read so far from one step to the next: neg the sign,
\* d the index of the first digit, ni the number of integer digits, dot
\* whether a point follows them, nf the number of fraction digits.
Signed(neg, mag) == IF neg THEN 0 - mag ELSE mag

ScanEnd(cs, neg, d, ni, dot, nf) ==
  [ok  |-> ni + nf > 0,
   val |-> Signed(neg, Scale * DigitsValue(cs, d, ni)
                       + (IF dot THEN FractionValue(cs, d + ni + 1, nf) ELSE 0)),
   end |-> IF dot /\ (ni + nf > 0) THEN d + ni + 1 + nf ELSE d + ni]

ScanFraction(cs, neg, d, ni, dot) ==
  ScanEnd(cs, neg, d, ni, dot, IF dot THEN DigitRun(cs, d + ni + 1) ELSE 0)

ScanInteger(cs, withFraction, neg, d, ni) ==
  ScanFraction(cs, neg, d, ni,
               withFraction /\ d + ni <= Len(cs) /\ cs[d + ni] = ".")

ScanSign(cs, withFraction, b) ==
  ScanInteger(cs, withFraction,
              b <= Len(cs) /\ cs[b] = "-",
              IF b <= Len(cs) /\ cs[b] \in {"-", "+"} THEN b + 1 ELSE b,
              DigitRun(cs, IF b <= Len(cs) /\ cs[b] \in {"-", "+"} THEN b + 1 ELSE b))

ScanDecimal(cs, withFraction) == ScanSign(cs, withFraction, SkipBlanks(cs, 1))

\* Truncation of hundredths towards zero to a whole number (in hundredths).
Trunc(h) ==
  IF h >= 0 THEN (h \div Scale) * Scale ELSE 0 - (((0 - h) \div Scale) * Scale)

\* The number a scan found, NaN when it found none.
Scanned(r) == IF r.ok THEN Num(r.val) ELSE NaN

\* The number a scan found when it read the string to its end (trailing
\* blanks aside), NaN otherwise.
ScannedWhole(cs, r) ==
  IF r.ok /\ SkipBlanks(cs, r.end) > Len(cs) THEN Num(r.val) ELSE NaN

\* parseFloat(v): a number is printed and parsed back, a string is parsed by
\* its longest numeric prefix, anything else is NaN.
parseFloat(v) ==
  CASE v.t = "number" -> v
    [] v.t = "string" -> Scanned(ScanDecimal(v.s, TRUE))
    [] OTHER -> NaN

\* parseInt(v): as parseFloat, but the literal stops at the decimal point.
parseInt(v) ==
  CASE v.t = "number" -> Num(Trunc(v.n))
    [] v.t = "string" -> Scanned(ScanDecimal(v.s, FALSE))
    [] OTHER -> NaN

\* ToNumber(v), the conversion the * operator applies to an operand: the whole
\* string must be a numeric literal, the empty string is 0.
ToNumber(v) ==
  CASE v.t = "number" -> v
    [] v.t = "string" ->
         IF SkipBlanks(v.s, 1) > Len(v.s) THEN Num(0)
         ELSE ScannedWhole(v.s, ScanDecimal(v.s, TRUE))
    [] OTHER -> NaN

Truthy(v) ==
  \/ v.t = "number" /\ v.n # 0
  \/ v.t = "string" /\ Len(v.s) > 0

\* a || b
Or(a, b) == IF Truthy(a) THEN a ELSE b

\* a * b and a + b on numbers (an operand that is not a number is converted).
MulNumbers(x, y) ==
  IF x.t = "nan" \/ y.t = "nan" THEN NaN ELSE Num((x.n * y.n) \div Scale)

Mul(a, b) == MulNumbers(ToNumber(a), ToNumber(b))

Add(a, b) ==
  IF a.t = "nan" \/ b.t = "nan" THEN NaN ELSE Num(a.n + b.n)

-----------------------------------------------------------------------------
(* Line items of a request body and the price calculators                  *)
(*                                                                         *)
(* A submitted item is a record [dish_id, dish_name, name, dish_price,     *)
(* price, dishPrice, quantity]; the three prices and the quantity are      *)
(* JavaScript values, the names are strings ("" when absent).              *)

DefaultDishName == "Dish"

\* a || b on names
NameOr(a, b) == IF a # "" THEN a ELSE b

\* item.dish_name || item.name || 'Блюдо'
DishName(item) == NameOr(NameOr(item.dish_name, item.name), DefaultDishName)

\* A variant of ItemPrice that forgets the dishPrice alias.
ItemPriceTwoAliases(item) ==
  Or(Or(parseFloat(item.dish_price), parseFloat(item.price)), Num(0))

\* Unit price of the persisted line item: dish_price, price, dishPrice, 0.
ItemPrice(item) ==
  Or(Or(Or(parseFloat(item.dish_price), parseFloat(item.price)),
        parseFloat(item.dishPrice)),
     Num(0))

\* parseInt(item.quantity) || 1
ItemQuantity(item) == Or(parseInt(item.quantity), One)

\* item.quantity || 1: the quantity as submitted, not parsed
RawQuantity(item) == Or(item.quantity, One)

OrderItem(item) ==
  [dish_id    |-> item.dish_id,
   dish_name  |-> DishName(item),
   dish_price |-> ItemPrice(item),
   quantity   |-> ItemQuantity(item)]

\* One pass of the loop of POST /orders: totalAmount += price * quantity and
\* orderItems.push(line).
PriceStep(acc, line) ==
  [totalAmount |-> Add(acc.totalAmount, Mul(line.dish_price, line.quantity)),
   orderItems  |-> Append(acc.orderItems, line)]

\* The loop of POST /orders over the submitted items: the running total and
\* the normalized line items, item by item from the first.
RECURSIVE PriceLoop(_)
PriceLoop(items) ==
  IF items = <<>> THEN [totalAmount |-> Num(0), orderItems |-> <<>>]
  ELSE PriceStep(PriceLoop(SubSeq(items, 1, Len(items) - 1)),
                 OrderItem(items[Len(items)]))

\* Unit price as the notification code resolves it: dish_price, price, 0.
NotificationPrice(item) ==
  Or(Or(parseFloat(item.dish_price), parseFloat(item.price)), Num(0))

\* total += price * quantity; count += quantity
TotalsStep(acc, p, q) ==
  [total |-> Add(acc.total, Mul(p, q)), count |-> Add(acc.count, q)]

\* notificationTotal and notificationItemCount of POST /orders (real mode).
RECURSIVE NotificationTotals(_)
NotificationTotals(items) ==
  IF items = <<>> THEN [total |-> Num(0), count |-> Num(0)]
  ELSE TotalsStep(NotificationTotals(SubSeq(items, 1, Len(items) - 1)),
                  NotificationPrice(items[Len(items)]),
                  Or(parseInt(items[Len(items)].quantity), One))

\* One entry of notificationData.items in real mode.
NotificationItem(item) ==
  [dishName   |-> DishName(item),
   quantity   |-> RawQuantity(item),
   dish_price |-> NotificationPrice(item),
   price      |-> NotificationPrice(item),
   totalPrice |-> Undefined]

OrderDetails(id, totals, list) ==
  [id |-> id, totalAmount |-> totals.total, itemCount |-> totals.count, items |-> list]

\* notificationData of POST /orders in real mode.
NotificationData(id, items) ==
  OrderDetails(id, NotificationTotals(items),
               [i \in 1..Len(items) |-> NotificationItem(items[i])])

\* total_amount of the synthesized order: the quantity is not parsed.
RECURSIVE MockTotal(_)
MockTotal(items) ==
  IF items = <<>> THEN Num(0)
  ELSE Add(MockTotal(SubSeq(items, 1, Len(items) - 1)),
           Mul(NotificationPrice(items[Len(items)]), RawQuantity(items[Len(items)])))

MockItem(item) ==
  [dish_id    |-> item.dish_id,
   dish_name  |-> DishName(item),
   dish_price |-> NotificationPrice(item),
   quantity   |-> RawQuantity(item)]

\* Identifiers: a SERIAL key of the store, or Date.now() of the mock branch.
NoId == [synthesized |-> FALSE, n |-> 0]
RowId(n) == [synthesized |-> FALSE, n |-> n]
MockId(now) == [synthesized |-> TRUE, n |-> now]

\* The synthesized order of the mock branch; now is Date.now().
MockOrder(now, items) ==
  [id           |-> MockId(now),
   total_amount |-> MockTotal(items),
   status       |-> "pending",
   items        |-> [i \in 1..Len(items) |-> MockItem(items[i])]]

MockNotificationItem(item) ==
  [dishName   |-> DishName(item),
   quantity   |-> RawQuantity(item),
   dish_price |-> Undefined,
   price      |-> Undefined,
   totalPrice |-> Mul(NotificationPrice(item), RawQuantity(item))]

\* notificationData of POST /orders in the mock branch.
MockNotificationData(order, items) ==
  [id          |-> order.id,
   totalAmount |-> order.total_amount,
   itemCount   |-> Num(Scale * Len(items)),
   items       |-> [i \in 1..Len(items) |-> MockNotificationItem(items[i])]]

\* parseFloat(item.dish_price) || parseFloat(item.price) || 0 on an entry of
\* orderDetails.items
TelegramPrice(item) ==
  Or(Or(parseFloat(item.dish_price), parseFloat(item.price)), Num(0))

\* The totals sendTelegramNotification recomputes from orderDetails.items.
RECURSIVE TelegramTotals(_)
TelegramTotals(items) ==
  IF items = <<>> THEN [total |-> Num(0), count |-> Num(0)]
  ELSE TotalsStep(TelegramTotals(SubSeq(items, 1, Len(items) - 1)),
                  TelegramPrice(items[Len(items)]),
                  Or(parseInt(items[Len(items)].quantity), One))

Line(dishName, p, q) == [dishName |-> dishName, quantity |-> q, itemTotal |-> Mul(p, q)]

\* One "name xquantity - itemTotal" line of the message.
TelegramLine(item) ==
  Line(item.dishName, TelegramPrice(item), Or(parseInt(item.quantity), One))

Message(orderDetails, totals) ==
  [id          |-> orderDetails.id,
   totalAmount |-> Or(orderDetails.totalAmount, totals.total),
   itemCount   |-> Or(orderDetails.itemCount, totals.count),
   lines       |-> [i \in 1..Len(orderDetails.items) |-> TelegramLine(orderDetails.items[i])]]

\* The message sendTelegramNotification builds from orderDetails.
TelegramMessage(orderDetails) ==
  Message(orderDetails, TelegramTotals(orderDetails.items))

-----------------------------------------------------------------------------
(* State                                                                   *)

VARIABLES
  phase,                \* "starting" until startServer calls app.listen
  pool,                 \* TRUE once initializeDatabase has created the Pool
  isDatabaseConnected,  \* the availability flag
  probeScheduled,       \* TRUE once setInterval has registered the probe
  botToken,             \* TRUE when TELEGRAM_BOT_TOKEN is configured
  orders,               \* rows of table orders, in insertion order
  order_items,          \* rows of table order_items, in insertion order
  req,                  \* the request in flight in each slot
  calc,                 \* the calculators applied to one item list
  dishes,               \* rows of table dishes, in insertion order
  lastProbe             \* outcome of the latest probe: "none", "ok", "failed"

vars == <<phase, pool, isDatabaseConnected, probeScheduled, botToken,
          orders, order_items, req, calc, dishes, lastProbe>>

MaxOrders == 1
MaxItems == 2
MaxDishes == 2

Slots == {1}
Users == {1, 2}
NowValues == {1}

-----------------------------------------------------------------------------
(* Sample inputs                                                           *)

Item(id, dn, nm, dp, p, dP, q) ==
  [dish_id |-> id, dish_name |-> dn, name |-> nm,
   dish_price |-> dp, price |-> p, dishPrice |-> dP, quantity |-> q]

\* {price: "10.5", quantity: 2}
ItemA == Item(1, "Pizza", "", Undefined, Str(<<"1", "0", ".", "5">>), Undefined, Num(2 * Scale))
\* {dish_price: 20, quantity: "3"}
ItemB == Item(2, "", "Soup", Num(20 * Scale), Undefined, Undefined, Str(<<"3">>))
\* {dishPrice: 5}: the price only under the third alias, no quantity
ItemC == Item(3, "", "", Undefined, Undefined, Num(5 * Scale), Undefined)
\* {dish_price: "abc", price: 7, quantity: "abc"}
ItemD == Item(4, "Tea", "", Str(<<"a", "b", "c">>), Num(7 * Scale), Undefined, Str(<<"a", "b", "c">>))

SampleItems == {ItemA, ItemB, ItemC, ItemD}

\* The item lists a request body carries.
SampleLists ==
  {<<>>, <<ItemA>>, <<ItemB>>, <<ItemC>>, <<ItemD>>,
   <<ItemA, ItemB>>, <<ItemC, ItemA>>, <<ItemB, ItemD>>}

\* Request headers: the Authorization header is absent, a Bearer token (that
\* jwt.verify accepts for user id, or rejects), or the pre-JWT "token_<id>"
\* string; x-user-id is absent (0) or a user id; X-Admin-API-Key is absent,
\* another string, or ADMIN_API_KEY.
NoAuthorization == [scheme |-> "none", valid |-> FALSE, id |-> 0]
Authorizations ==
  {NoAuthorization, [scheme |-> "bearer", valid |-> FALSE, id |-> 0]}
  \cup {[scheme |-> "bearer", valid |-> TRUE, id |-> u] : u \in Users}
  \cup {[scheme |-> "token_", valid |-> FALSE, id |-> u] : u \in {1}}

NoHdr == [authorization |-> NoAuthorization, xUserId |-> 0, adminKey |-> "none"]

UserHeaders ==
  {[authorization |-> a, xUserId |-> x, adminKey |-> "none"] :
     a \in Authorizations, x \in {0, 2}}

NoItems == [present |-> FALSE, list |-> <<>>]

NoBody ==
  [restaurant_id |-> Undefined, items |-> NoItems, delivery_address |-> Undefined,
   status |-> "", orderId |-> 0]

OrderBodies ==
  {[restaurant_id |-> rid, items |-> it, delivery_address |-> da,
    status |-> "", orderId |-> 0] :
     rid \in {Undefined, One},
     it \in {NoItems} \cup {[present |-> TRUE, list |-> l] : l \in SampleLists},
     da \in {Undefined, Str(<<"X">>)}}

-----------------------------------------------------------------------------
(* The store: conversions between JavaScript values and column values      *)

DigitChar(d) ==
  CASE d = 0 -> "0" [] d = 1 -> "1" [] d = 2 -> "2" [] d = 3 -> "3"
    [] d = 4 -> "4" [] d = 5 -> "5" [] d = 6 -> "6" [] d = 7 -> "7"
    [] d = 8 -> "8" [] d = 9 -> "9"

RECURSIVE NatDigits(_)
NatDigits(n) ==
  IF n < 10 THEN <<DigitChar(n)>>
  ELSE Append(NatDigits(n \div 10), DigitChar(n % 10))

\* The text pg returns for a DECIMAL(10,2) column, e.g. "81.00".
NumericToString(h) ==
  LET a == IF h < 0 THEN 0 - h ELSE h
  IN  (IF h < 0 THEN <<"-">> ELSE <<>>)
      \o NatDigits(a \div Scale)
      \o <<".", DigitChar((a % Scale) \div 10), DigitChar(a % 10)>>

\* A number bound to a DECIMAL(10,2) column, and to an INTEGER column.
ToNumeric(v) == v.n
ToInteger(v) == v.n \div Scale

\* INSERT INTO orders ... RETURNING *: the new row.
OrderRow(userId, totalAmount, delivery_address) ==
  [id               |-> Len(orders) + 1,
   user_id          |-> userId,
   total_amount     |-> ToNumeric(totalAmount),
   status           |-> "pending",
   delivery_address |-> delivery_address]

\* A variant of OrderItemRow that writes the row under the newest header of
\* the store instead of the header of its own submission.
OrderItemRowNewest(orderId, item) ==
  [order_id   |-> Len(orders),
   dish_id    |-> item.dish_id,
   dish_name  |-> item.dish_name,
   dish_price |-> item.dish_price.n,
   quantity   |-> item.quantity.n \div Scale]

\* INSERT INTO order_items: the new row.
OrderItemRow(orderId, item) ==
  [order_id   |-> orderId,
   dish_id    |-> item.dish_id,
   dish_name  |-> item.dish_name,
   dish_price |-> ToNumeric(item.dish_price),
   quantity   |-> ToInteger(item.quantity)]

\* json_build_object(...) of one order_items row.
JsonItem(row) ==
  [dish_id    |-> row.dish_id,
   dish_name  |-> row.dish_name,
   dish_price |-> Num(row.dish_price),
   quantity   |-> Num(Scale * row.quantity)]

\* json_agg(...) FILTER (WHERE oi.id IS NOT NULL), '[]' when no row joins.
RECURSIVE JsonAgg(_, _)
JsonAgg(rows, orderId) ==
  IF rows = <<>> THEN <<>>
  ELSE LET n    == Len(rows)
           rest == JsonAgg(SubSeq(rows, 1, n - 1), orderId)
       IN  IF rows[n].order_id = orderId THEN Append(rest, JsonItem(rows[n]))
           ELSE rest

\* SELECT o.*, items FROM orders o LEFT JOIN order_items ... WHERE o.id = $1
FullOrder(orderId) ==
  [id           |-> orders[orderId].id,
   user_id      |-> orders[orderId].user_id,
   total_amount |-> Str(NumericToString(orders[orderId].total_amount)),
   status       |-> orders[orderId].status,
   items        |-> JsonAgg(order_items, orderId)]

NoRow ==
  [id |-> 0, user_id |-> 0, total_amount |-> 0, status |-> "",
   delivery_address |-> Undefined]

NoFullOrder ==
  [id |-> 0, user_id |-> 0, total_amount |-> Undefined, status |-> "", items |-> <<>>]

-----------------------------------------------------------------------------
(* Authentication                                                          *)

\* getUserIdFromToken: the id jwt.verify decodes from a Bearer token, else
\* null (0 here: the handlers test !userId).
getUserIdFromToken(hdr) ==
  IF hdr.authorization.scheme # "bearer" THEN 0
  ELSE IF hdr.authorization.valid THEN hdr.authorization.id
  ELSE 0

\* getUserIdFromToken of the older snapshot: without a Bearer token it takes
\* the x-user-id header, then a "token_<id>" Authorization header.
getUserIdFromTokenLegacy(hdr) ==
  IF hdr.authorization.scheme # "bearer"
  THEN IF hdr.xUserId # 0 THEN hdr.xUserId
       ELSE IF hdr.authorization.scheme = "token_" THEN hdr.authorization.id
       ELSE 0
  ELSE IF hdr.authorization.valid THEN hdr.authorization.id
  ELSE 0

\* validateAdminApiKey, and the inline test !apiKey || apiKey !== ADMIN_API_KEY
validateAdminApiKey(hdr) == hdr.adminKey = "right"

-----------------------------------------------------------------------------
(* Requests and responses                                                  *)

NoOrder == [id |-> NoId, total_amount |-> Undefined, status |-> "", items |-> <<>>]

NoResp ==
  [status |-> 0, success |-> "absent", error |-> "", hasOrder |-> FALSE,
   order |-> NoOrder, orders |-> <<>>]

\* res.status(code).json({success: false, error})
ErrorResponse(code, error) ==
  [status |-> code, success |-> "false", error |-> error, hasOrder |-> FALSE,
   order |-> NoOrder, orders |-> <<>>]

\* res.json({success: true, message, order})
OrderResponse(order) ==
  [status |-> 200, success |-> "true", error |-> "", hasOrder |-> TRUE,
   order |-> order, orders |-> <<>>]

\* The order object POST /orders returns in real mode.
CreatedOrder(fullOrder) ==
  [id           |-> RowId(fullOrder.id),
   total_amount |-> parseFloat(fullOrder.total_amount),
   status       |-> fullOrder.status,
   items        |-> fullOrder.items]

NoMsg == [id |-> NoId, totalAmount |-> Undefined, itemCount |-> Undefined, lines |-> <<>>]

NoLoc ==
  [totalAmount |-> Undefined, orderItems |-> <<>>, order |-> 0, idx |-> 0,
   fullOrder |-> NoFullOrder, mockOrder |-> NoOrder, row |-> NoRow, was |-> "",
   lookup |-> ""]

\* What a dish request carries: the id of the URL, the names of the body's
\* fields, and the values of price and is_available when present.
NoDish == [id |-> 0, fields |-> {}, price |-> Undefined, is_available |-> FALSE]

NoReq ==
  [kind |-> "none", pc |-> "idle", hdr |-> NoHdr, body |-> NoBody, dish |-> NoDish,
   mode |-> "none", flag |-> FALSE, userId |-> 0, loc |-> NoLoc,
   dbCalls |-> 0, dbWrites |-> 0, notifyCalls |-> 0, sends |-> 0,
   msg |-> NoMsg, outcome |-> "none", resp |-> NoResp]

NotifyOutcomes == {"ok", "timeout", "non2xx", "network"}

\* The request of slot r becomes rq.
SetReq(r, rq) == req' = [req EXCEPT ![r] = rq]

\* The handler of slot r sends response resp and ends.
Respond(rq, resp) == [rq EXCEPT !.pc = "done", !.resp = resp]

-----------------------------------------------------------------------------
(* Start-up and the periodic probe                                         *)

\* initializeDatabase, awaited by startServer before app.listen: without
\* connection data it returns at once; otherwise it creates the Pool, and
\* sets the flag and schedules the probe only when the connection test and
\* the schema setup succeed.
InitializeDatabase ==
  /\ phase = "starting"
  /\ \E outcome \in {"no_url", "failed", "connected"} :
       /\ pool' = (outcome # "no_url")
       /\ isDatabaseConnected' = (outcome = "connected")
       /\ probeScheduled' = (outcome = "connected")
  /\ phase' = "listening"
  /\ UNCHANGED <<botToken, orders, order_items, req, calc, dishes, lastProbe>>

\* The setInterval callback: SELECT 1; a failure clears the flag, a success
\* leaves it as it is.
Probe ==
  /\ phase = "listening"
  /\ probeScheduled
  /\ \E ok \in BOOLEAN :
       /\ isDatabaseConnected' = IF ok THEN isDatabaseConnected ELSE FALSE
       /\ lastProbe' = IF ok THEN "ok" ELSE "failed"
  /\ UNCHANGED <<phase, pool, probeScheduled, botToken, orders, order_items, req, calc, dishes>>

-----------------------------------------------------------------------------
(* POST /orders                                                            *)

\* A variant of ValidOrderBody that forgets the delivery address.
ValidOrderBodyNoAddress(body) ==
  /\ Truthy(body.restaurant_id)
  /\ body.items.present

\* !restaurant_id || !items || !delivery_address is false
ValidOrderBody(body) ==
  /\ Truthy(body.restaurant_id)
  /\ body.items.present
  /\ Truthy(body.delivery_address)

\* The catch (dbError) of the real branch.
DbErrorResponse == ErrorResponse(500, "order_db_error")

\* A variant of AfterNotification that lets a failed notification through to
\* the outer catch of the handler.
AfterNotificationFailing(outcome, resp) ==
  IF outcome \in {"timeout", "non2xx", "network"}
  THEN ErrorResponse(500, "server_error") ELSE resp

\* What the handler does once sendTelegramNotification has returned or its
\* error has been caught: it sends the response it was going to send.
AfterNotification(outcome, resp) == resp

\* The response a handler suspended in the notification sends afterwards.
FinalResponse(rq) ==
  IF rq.mode = "real" THEN OrderResponse(CreatedOrder(rq.loc.fullOrder))
  ELSE OrderResponse(rq.loc.mockOrder)

\* A variant of CallNotification whose axios.post carries no timeout and
\* meets an endpoint that never answers.
CallNotificationNoTimeout(rq, orderDetails) ==
  IF botToken
  THEN [rq EXCEPT !.notifyCalls = @ + 1, !.pc = "hung", !.sends = @ + 1,
                  !.msg = TelegramMessage(orderDetails)]
  ELSE Respond([rq EXCEPT !.notifyCalls = @ + 1],
               OrderResponse(IF rq.mode = "real" THEN CreatedOrder(rq.loc.fullOrder)
                             ELSE rq.loc.mockOrder))

\* The call of sendTelegramNotification(orderDetails) up to its await: with
\* no bot token it returns null and the handler responds in the same turn,
\* otherwise the message is built and axios.post is in flight.
CallNotification(rq, orderDetails) ==
  LET called == [rq EXCEPT !.notifyCalls = @ + 1]
  IN  IF botToken
      THEN [called EXCEPT !.pc = "notify", !.sends = @ + 1,
                          !.msg = TelegramMessage(orderDetails)]
      ELSE Respond(called, AfterNotification("none", FinalResponse(called)))

\* A variant of MockWith that responds without calling the dispatcher.
MockWithoutNotification(rq, order) ==
  Respond([rq EXCEPT !.mode = "mock", !.loc.mockOrder = order], OrderResponse(order))

\* The mock branch up to the notification.
MockWith(rq, order) ==
  CallNotification([rq EXCEPT !.mode = "mock", !.loc.mockOrder = order],
                   MockNotificationData(order, rq.body.items.list))

MockBranch(rq, now) == MockWith(rq, MockOrder(now, rq.body.items.list))

\* A variant of Priced that issues the INSERTs of the line items before the
\* INSERT of the header.
PricedItemsFirst(rq, priced) ==
  [rq EXCEPT !.mode = "real",
             !.pc = IF priced.orderItems = <<>> THEN "insert_header" ELSE "insert_item",
             !.loc.totalAmount = priced.totalAmount,
             !.loc.orderItems = priced.orderItems,
             !.loc.idx = 1,
             !.dbCalls = @ + 1]

\* The real branch up to its first await: the price loop, then the INSERT
\* of the header is issued.
Priced(rq, priced) ==
  [rq EXCEPT !.mode = "real", !.pc = "insert_header",
             !.loc.totalAmount = priced.totalAmount,
             !.loc.orderItems = priced.orderItems,
             !.dbCalls = @ + 1]

\* The loop reads req.body.items and nothing else of the body.
PriceBody(body) == PriceLoop(body.items.list)

RealBranch(rq) == Priced(rq, PriceBody(rq.body))

\* The first turn of the handler, for a request drawn from the given
\* headers and bodies.
ReceiveOrderFrom(r, headers, bodies) ==
  /\ phase = "listening"
  /\ req[r].kind = "none"
  /\ \E hdr \in headers, body \in bodies, now \in NowValues :
       LET userId == getUserIdFromToken(hdr)
           rq == [NoReq EXCEPT !.kind = "postOrder", !.hdr = hdr, !.body = body,
                               !.userId = userId, !.flag = isDatabaseConnected]
       IN  SetReq(r, IF userId = 0
                     THEN Respond(rq, ErrorResponse(401, "auth_required"))
                     ELSE IF ~ValidOrderBody(body)
                     THEN Respond(rq, ErrorResponse(400, "required_fields"))
                     ELSE IF isDatabaseConnected /\ pool THEN RealBranch(rq)
                     ELSE MockBranch(rq, now))
  /\ UNCHANGED <<phase, pool, isDatabaseConnected, probeScheduled, botToken,
                 orders, order_items, calc, dishes, lastProbe>>

ReceiveOrder(r) == ReceiveOrderFrom(r, UserHeaders, OrderBodies)

\* INSERT INTO orders returns, or throws.  The store takes MaxOrders orders
\* for each request slot.
InsertHeader(r) ==
  /\ req[r].kind = "postOrder"
  /\ req[r].pc = "insert_header"
  /\ \E ok \in BOOLEAN :
       IF ok
       THEN /\ Len(orders) < MaxOrders * Cardinality(DOMAIN req)
            /\ LET row == OrderRow(req[r].userId, req[r].loc.totalAmount,
                                   req[r].body.delivery_address)
                   rq  == [req[r] EXCEPT !.loc.order = row.id, !.loc.idx = 1,
                                         !.dbWrites = @ + 1, !.dbCalls = @ + 1,
                                         !.pc = IF req[r].loc.orderItems = <<>>
                                                THEN "reread" ELSE "insert_item"]
               IN  /\ orders' = Append(orders, row)
                   /\ SetReq(r, rq)
       ELSE /\ SetReq(r, Respond(req[r], DbErrorResponse))
            /\ UNCHANGED orders
  /\ UNCHANGED <<phase, pool, isDatabaseConnected, probeScheduled, botToken,
                 order_items, calc, dishes, lastProbe>>

\* INSERT INTO order_items of the next line item returns, or throws.
InsertItem(r) ==
  /\ req[r].kind = "postOrder"
  /\ req[r].pc = "insert_item"
  /\ \E ok \in BOOLEAN :
       IF ok
       THEN LET i  == req[r].loc.idx
                rq == [req[r] EXCEPT !.loc.idx = i + 1,
                                     !.dbWrites = @ + 1, !.dbCalls = @ + 1,
                                     !.pc = IF i = Len(req[r].loc.orderItems)
                                            THEN "reread" ELSE "insert_item"]
            IN  /\ order_items' = Append(order_items,
                                         OrderItemRow(req[r].loc.order, req[r].loc.orderItems[i]))
                /\ SetReq(r, rq)
       ELSE /\ SetReq(r, Respond(req[r], DbErrorResponse))
            /\ UNCHANGED order_items
  /\ UNCHANGED <<phase, pool, isDatabaseConnected, probeScheduled, botToken,
                 orders, calc, dishes, lastProbe>>

\* A variant of NotifyCreated that reads the availability flag again after
\* the re-read and takes the mock branch when it has been cleared.
NotifyCreatedRechecking(rq, fullOrder) ==
  IF isDatabaseConnected
  THEN CallNotification([rq EXCEPT !.loc.fullOrder = fullOrder],
                        NotificationData(RowId(fullOrder.id), rq.body.items.list))
  ELSE MockBranch(rq, 1)

\* The notification of the order just re-read.
NotifyCreated(rq, fullOrder) ==
  CallNotification([rq EXCEPT !.loc.fullOrder = fullOrder],
                   NotificationData(RowId(fullOrder.id), rq.body.items.list))

\* The composite re-read returns, or throws; on return the notification is
\* built and sent in the same turn.
ReRead(r) ==
  /\ req[r].kind = "postOrder"
  /\ req[r].pc = "reread"
  /\ \E ok \in BOOLEAN :
       IF ok
       THEN SetReq(r, NotifyCreated(req[r], FullOrder(req[r].loc.order)))
       ELSE SetReq(r, Respond(req[r], DbErrorResponse))
  /\ UNCHANGED <<phase, pool, isDatabaseConnected, probeScheduled, botToken,
                 orders, order_items, calc, dishes, lastProbe>>

\* A variant of NotificationSettled that posts the message once more after a
\* failed send.
NotificationSettledRetrying(rq, outcome) ==
  IF outcome # "ok" /\ rq.sends < 2
  THEN [rq EXCEPT !.sends = @ + 1, !.outcome = outcome]
  ELSE Respond([rq EXCEPT !.outcome = outcome],
               AfterNotification(outcome, FinalResponse(rq)))

\* sendTelegramNotification resumes when axios.post has settled: it returns
\* the data, or catches the error and returns null; the handler then sends
\* its response.
NotificationSettled(rq, outcome) ==
  Respond([rq EXCEPT !.outcome = outcome],
          AfterNotification(outcome, FinalResponse(rq)))

\* axios.post returns or fails; either way the handler sends its response.
NotifyReturn(r) ==
  /\ req[r].kind = "postOrder"
  /\ req[r].pc = "notify"
  /\ \E outcome \in NotifyOutcomes :
       SetReq(r, NotificationSettled(req[r], outcome))
  /\ UNCHANGED <<phase, pool, isDatabaseConnected, probeScheduled, botToken,
                 orders, order_items, calc, dishes, lastProbe>>

\* The response has been sent; the slot takes the next request.
Finish(r) ==
  /\ req[r].pc = "done"
  /\ SetReq(r, NoReq)
  /\ UNCHANGED <<phase, pool, isDatabaseConnected, probeScheduled, botToken,
                 orders, order_items, calc, dishes, lastProbe>>

-----------------------------------------------------------------------------
(* GET /users/me/orders, and the same route of the older snapshot          *)

ListLimit == 50

\* The first k elements of a sequence.
Take(seq, k) == SubSeq(seq, 1, IF Len(seq) < k THEN Len(seq) ELSE k)

\* One row of the listing as the handler maps it.
ListedOrder(row, items) ==
  [id           |-> RowId(row.id),
   total_amount |-> parseFloat(Str(NumericToString(row.total_amount))),
   status       |-> row.status,
   items        |-> items]

\* json_agg(...) without FILTER: an order no item joins yields one row of
\* NULLs, so the aggregate holds one object of nulls.
NullItem == [dish_id |-> 0, dish_name |-> "", dish_price |-> Undefined, quantity |-> Undefined]

JsonAggNoFilter(rows, orderId) ==
  IF JsonAgg(rows, orderId) = <<>> THEN <<NullItem>> ELSE JsonAgg(rows, orderId)

\* A variant of OrdersOf without the WHERE clause.
RECURSIVE OrdersOfAnyone(_, _, _)
OrdersOfAnyone(rows, userId, filtered) ==
  IF rows = <<>> THEN <<>>
  ELSE <<ListedOrder(rows[Len(rows)], JsonAgg(order_items, rows[Len(rows)].id))>>
       \o OrdersOfAnyone(SubSeq(rows, 1, Len(rows) - 1), userId, filtered)

\* WHERE o.user_id = $1 ... ORDER BY o.order_date DESC: the caller's orders,
\* the newest first.
RECURSIVE OrdersOf(_, _, _)
OrdersOf(rows, userId, filtered) ==
  IF rows = <<>> THEN <<>>
  ELSE IF rows[Len(rows)].user_id = userId
  THEN <<ListedOrder(rows[Len(rows)],
                     IF filtered THEN JsonAgg(order_items, rows[Len(rows)].id)
                     ELSE JsonAggNoFilter(order_items, rows[Len(rows)].id))>>
       \o OrdersOf(SubSeq(rows, 1, Len(rows) - 1), userId, filtered)
  ELSE OrdersOf(SubSeq(rows, 1, Len(rows) - 1), userId, filtered)

\* The fixed orders the mock branch returns to user 1 (their ids).
MockDish(id, name, price, quantity) ==
  [dish_id |-> id, dish_name |-> name, dish_price |-> Num(price * Scale),
   quantity |-> Num(quantity * Scale)]

MockUserOrders(legacy) ==
  IF legacy
  THEN <<[id |-> RowId(100), total_amount |-> Num(1200 * Scale), status |-> "delivered",
          items |-> <<MockDish(11, "Pepperoni", 600, 2)>>],
         [id |-> RowId(101), total_amount |-> Num(749 * Scale), status |-> "delivered",
          items |-> <<MockDish(21, "Cheeseburger", 299, 1), MockDish(23, "Fries", 149, 3)>>]>>
  ELSE <<[id |-> RowId(100), total_amount |-> Num(2598 * Scale), status |-> "delivered",
          items |-> <<MockDish(1, "Ribeye", 1899, 1), MockDish(5, "Potatoes", 299, 1)>>]>>

\* res.json({success: true, orders}); the older snapshot sends {orders}.
ListResponse(legacy, list) ==
  [status |-> 200, success |-> IF legacy THEN "absent" ELSE "true", error |-> "",
   hasOrder |-> FALSE, order |-> NoOrder, orders |-> list]

\* res.status(401).json({error}): the body has no success field.
ListUnauthorized ==
  [status |-> 401, success |-> "absent", error |-> "auth_required",
   hasOrder |-> FALSE, order |-> NoOrder, orders |-> <<>>]

\* The first turn of the handler, after the identity has been resolved.
UserOrdersTurn(rq, legacy) ==
  IF rq.userId = 0 THEN Respond(rq, ListUnauthorized)
  ELSE IF isDatabaseConnected /\ pool
  THEN [rq EXCEPT !.mode = "real", !.pc = "list", !.dbCalls = @ + 1]
  ELSE Respond([rq EXCEPT !.mode = "mock"],
               ListResponse(legacy, IF rq.userId = 1 THEN MockUserOrders(legacy) ELSE <<>>))

ReceiveUserOrders(r) ==
  /\ phase = "listening"
  /\ req[r].kind = "none"
  /\ \E hdr \in UserHeaders :
       SetReq(r, UserOrdersTurn([NoReq EXCEPT !.kind = "userOrders", !.hdr = hdr,
                                              !.flag = isDatabaseConnected,
                                              !.userId = getUserIdFromToken(hdr)],
                                FALSE))
  /\ UNCHANGED <<phase, pool, isDatabaseConnected, probeScheduled, botToken,
                 orders, order_items, calc, dishes, lastProbe>>

ReceiveUserOrdersLegacy(r) ==
  /\ phase = "listening"
  /\ req[r].kind = "none"
  /\ \E hdr \in UserHeaders :
       SetReq(r, UserOrdersTurn([NoReq EXCEPT !.kind = "userOrdersLegacy", !.hdr = hdr,
                                              !.flag = isDatabaseConnected,
                                              !.userId = getUserIdFromTokenLegacy(hdr)],
                                TRUE))
  /\ UNCHANGED <<phase, pool, isDatabaseConnected, probeScheduled, botToken,
                 orders, order_items, calc, dishes, lastProbe>>

\* The listing query returns, or throws: a failure is answered with an
\* empty list.
UserOrdersReturn(r) ==
  /\ req[r].kind \in {"userOrders", "userOrdersLegacy"}
  /\ req[r].pc = "list"
  /\ \E ok \in BOOLEAN :
       SetReq(r, Respond(req[r],
                 ListResponse(req[r].kind = "userOrdersLegacy",
                              IF ~ok THEN <<>>
                              ELSE IF req[r].kind = "userOrdersLegacy"
                              THEN OrdersOf(orders, req[r].userId, FALSE)
                              ELSE Take(OrdersOf(orders, req[r].userId, TRUE), ListLimit))))
  /\ UNCHANGED <<phase, pool, isDatabaseConnected, probeScheduled, botToken,
                 orders, order_items, calc, dishes, lastProbe>>

-----------------------------------------------------------------------------
(* PUT /bot/orders/:id/status and PUT /admin/orders/:id/status             *)

\* A variant of validStatuses that lets one more value through.
validStatusesLoose ==
  {"pending", "preparing", "delivering", "delivered", "cancelled", "bogus"}

validStatuses == {"pending", "preparing", "delivering", "delivered", "cancelled"}

\* users.telegram_chat_id: user 1 has registered a chat, user 2 has not.
HasChat(userId) == userId = 1

AdminHeaders ==
  {[authorization |-> NoAuthorization, xUserId |-> x, adminKey |-> k] :
     x \in {0}, k \in {"none", "wrong", "right"}}

StatusBodies ==
  {[restaurant_id |-> Undefined, items |-> NoItems, delivery_address |-> Undefined,
    status |-> st, orderId |-> id] :
     st \in validStatuses \cup {"", "bogus"}, id \in 1..(MaxOrders + 1)}

\* res.json({success: true, message, order: {id, status}})
StatusResponse(id, status) ==
  OrderResponse([id |-> id, total_amount |-> Undefined, status |-> status, items |-> <<>>])

\* A variant of UpdateStatus without the WHERE clause.
UpdateStatusEveryRow(rows, id, status) ==
  [i \in 1..Len(rows) |-> [rows[i] EXCEPT !.status = status]]

\* A variant of UpdateStatus that keeps a delivered or cancelled order as it is.
UpdateStatusUnlessFinal(rows, id, status) ==
  [i \in 1..Len(rows) |->
     IF rows[i].id = id /\ rows[i].status \notin {"delivered", "cancelled"}
     THEN [rows[i] EXCEPT !.status = status] ELSE rows[i]]

\* UPDATE orders SET status = $1 WHERE id = $2: the table afterwards.
UpdateStatus(rows, id, status) ==
  [i \in 1..Len(rows) |-> IF rows[i].id = id THEN [rows[i] EXCEPT !.status = status]
                          ELSE rows[i]]

\* The first turn of the bot handler.
ReceiveBotStatus(r) ==
  /\ phase = "listening"
  /\ req[r].kind = "none"
  /\ \E hdr \in AdminHeaders, body \in StatusBodies :
       LET rq == [NoReq EXCEPT !.kind = "botStatus", !.hdr = hdr, !.body = body,
                               !.flag = isDatabaseConnected]
       IN  SetReq(r, IF ~validateAdminApiKey(hdr)
                     THEN Respond(rq, ErrorResponse(401, "bad_api_key"))
                     ELSE IF body.status \notin validStatuses
                     THEN Respond(rq, ErrorResponse(400, "bad_status"))
                     ELSE IF isDatabaseConnected /\ pool
                     THEN [rq EXCEPT !.mode = "real", !.pc = "update", !.dbCalls = @ + 1]
                     ELSE Respond([rq EXCEPT !.mode = "mock"],
                                  StatusResponse(RowId(body.orderId), body.status)))
  /\ UNCHANGED <<phase, pool, isDatabaseConnected, probeScheduled, botToken,
                 orders, order_items, calc, dishes, lastProbe>>

\* The UPDATE returns its rows, or throws.  With a row, the owner's chat id
\* is looked up next (order.user_id is set on every order this code writes).
BotStatusUpdate(r) ==
  /\ req[r].kind = "botStatus"
  /\ req[r].pc = "update"
  /\ \E ok \in BOOLEAN :
       IF ok /\ req[r].body.orderId \in 1..Len(orders)
       THEN /\ orders' = UpdateStatus(orders, req[r].body.orderId, req[r].body.status)
            /\ SetReq(r, [req[r] EXCEPT !.dbWrites = @ + 1, !.dbCalls = @ + 1,
                                        !.pc = "select_user",
                                        !.loc.was = orders[req[r].body.orderId].status,
                                        !.loc.row = [orders[req[r].body.orderId]
                                                       EXCEPT !.status = req[r].body.status]])
       ELSE /\ SetReq(r, Respond(req[r],
                         IF ok THEN ErrorResponse(404, "order_not_found")
                         ELSE ErrorResponse(500, "db_error")))
            /\ UNCHANGED orders
  /\ UNCHANGED <<phase, pool, isDatabaseConnected, probeScheduled, botToken,
                 order_items, calc, dishes, lastProbe>>

\* The response of the bot handler once the update has succeeded.
BotStatusDone(rq) == StatusResponse(RowId(rq.loc.row.id), rq.loc.row.status)

\* SELECT telegram_chat_id returns, or throws (caught with the notification
\* errors): with a chat id the message is posted, else the response is sent.
BotStatusUser(r) ==
  /\ req[r].kind = "botStatus"
  /\ req[r].pc = "select_user"
  /\ \E ok \in BOOLEAN :
       SetReq(r, IF ok /\ HasChat(req[r].loc.row.user_id)
                 THEN [req[r] EXCEPT !.pc = "notify", !.sends = @ + 1, !.loc.lookup = "ok"]
                 ELSE Respond([req[r] EXCEPT !.loc.lookup = IF ok THEN "ok" ELSE "failed"],
                              AfterNotification("none", BotStatusDone(req[r]))))
  /\ UNCHANGED <<phase, pool, isDatabaseConnected, probeScheduled, botToken,
                 orders, order_items, calc, dishes, lastProbe>>

\* axios.post to the owner's chat returns or fails; the URL is built from
\* TELEGRAM_BOT_TOKEN whether or not it is set, and cannot succeed without.
BotStatusNotified(r) ==
  /\ req[r].kind = "botStatus"
  /\ req[r].pc = "notify"
  /\ \E outcome \in NotifyOutcomes :
       /\ botToken \/ outcome # "ok"
       /\ SetReq(r, Respond([req[r] EXCEPT !.outcome = outcome],
                            AfterNotification(outcome, BotStatusDone(req[r]))))
  /\ UNCHANGED <<phase, pool, isDatabaseConnected, probeScheduled, botToken,
                 orders, order_items, calc, dishes, lastProbe>>

\* The first turn of the admin handler: it calls pool.query whatever the
\* flag says, which throws at once when there is no Pool.
ReceiveAdminStatus(r) ==
  /\ phase = "listening"
  /\ req[r].kind = "none"
  /\ \E hdr \in AdminHeaders, body \in StatusBodies :
       LET rq == [NoReq EXCEPT !.kind = "adminStatus", !.hdr = hdr, !.body = body,
                               !.flag = isDatabaseConnected]
       IN  SetReq(r, IF ~validateAdminApiKey(hdr)
                     THEN Respond(rq, ErrorResponse(401, "bad_api_key"))
                     ELSE IF body.status \notin validStatuses
                     THEN Respond(rq, ErrorResponse(400, "bad_status"))
                     ELSE IF pool
                     THEN [rq EXCEPT !.mode = "real", !.pc = "update", !.dbCalls = @ + 1]
                     ELSE Respond(rq, ErrorResponse(500, "server_error")))
  /\ UNCHANGED <<phase, pool, isDatabaseConnected, probeScheduled, botToken,
                 orders, order_items, calc, dishes, lastProbe>>

AdminStatusUpdate(r) ==
  /\ req[r].kind = "adminStatus"
  /\ req[r].pc = "update"
  /\ \E ok \in BOOLEAN :
       IF ok /\ req[r].body.orderId \in 1..Len(orders)
       THEN /\ orders' = UpdateStatus(orders, req[r].body.orderId, req[r].body.status)
            /\ SetReq(r, Respond([req[r] EXCEPT !.dbWrites = @ + 1,
                                                  !.loc.was = orders[req[r].body.orderId].status],
                                 StatusResponse(RowId(req[r].body.orderId), req[r].body.status)))
       ELSE /\ SetReq(r, Respond(req[r],
                         IF ok THEN ErrorResponse(404, "order_not_found")
                         ELSE ErrorResponse(500, "server_error")))
            /\ UNCHANGED orders
  /\ UNCHANGED <<phase, pool, isDatabaseConnected, probeScheduled, botToken,
                 order_items, calc, dishes, lastProbe>>

-----------------------------------------------------------------------------
(* GET /bot/orders and GET /bot/orders/:id                                 *)

\* SELECT ... FROM orders o LEFT JOIN order_items ... GROUP BY o.id
\* ORDER BY o.order_date DESC: every order, the newest first.
RECURSIVE AllOrders(_)
AllOrders(rows) ==
  IF rows = <<>> THEN <<>>
  ELSE <<ListedOrder(rows[Len(rows)], JsonAgg(order_items, rows[Len(rows)].id))>>
       \o AllOrders(SubSeq(rows, 1, Len(rows) - 1))

\* The fixed order the mock branches of the bot reads return, under id.
MockBotOrder(id) ==
  [id |-> id, total_amount |-> Num(2598 * Scale), status |-> "pending",
   items |-> <<MockDish(1, "Ribeye", 1899, 1), MockDish(5, "Potatoes", 299, 2)>>]

\* res.json({success: true, orders})
BotListResponse(list) ==
  [status |-> 200, success |-> "true", error |-> "", hasOrder |-> FALSE,
   order |-> NoOrder, orders |-> list]

BotReadBodies ==
  {[NoBody EXCEPT !.orderId = id] : id \in 1..(MaxOrders + 1)}

\* The first turn of GET /bot/orders.
ReceiveBotOrders(r) ==
  /\ phase = "listening"
  /\ req[r].kind = "none"
  /\ \E hdr \in AdminHeaders :
       LET rq == [NoReq EXCEPT !.kind = "botOrders", !.hdr = hdr,
                               !.flag = isDatabaseConnected]
       IN  SetReq(r, IF ~validateAdminApiKey(hdr)
                     THEN Respond(rq, ErrorResponse(401, "bad_api_key"))
                     ELSE IF isDatabaseConnected /\ pool
                     THEN [rq EXCEPT !.mode = "real", !.pc = "read", !.dbCalls = @ + 1]
                     ELSE Respond([rq EXCEPT !.mode = "mock"],
                                  BotListResponse(<<MockBotOrder(RowId(100))>>)))
  /\ UNCHANGED <<phase, pool, isDatabaseConnected, probeScheduled, botToken,
                 orders, order_items, calc, dishes, lastProbe>>

\* The first turn of GET /bot/orders/:id.
ReceiveBotOrder(r) ==
  /\ phase = "listening"
  /\ req[r].kind = "none"
  /\ \E hdr \in AdminHeaders, body \in BotReadBodies :
       LET rq == [NoReq EXCEPT !.kind = "botOrder", !.hdr = hdr, !.body = body,
                               !.flag = isDatabaseConnected]
       IN  SetReq(r, IF ~validateAdminApiKey(hdr)
                     THEN Respond(rq, ErrorResponse(401, "bad_api_key"))
                     ELSE IF isDatabaseConnected /\ pool
                     THEN [rq EXCEPT !.mode = "real", !.pc = "read", !.dbCalls = @ + 1]
                     ELSE Respond([rq EXCEPT !.mode = "mock"],
                                  OrderResponse(MockBotOrder(RowId(body.orderId)))))
  /\ UNCHANGED <<phase, pool, isDatabaseConnected, probeScheduled, botToken,
                 orders, order_items, calc, dishes, lastProbe>>

\* What a bot read answers when its query has returned.
BotReadResult(rq) ==
  IF rq.kind = "botOrders" THEN BotListResponse(Take(AllOrders(orders), ListLimit))
  ELSE IF rq.body.orderId \in 1..Len(orders)
  THEN OrderResponse(ListedOrder(orders[rq.body.orderId],
                                 JsonAgg(order_items, rq.body.orderId)))
  ELSE ErrorResponse(404, "order_not_found")

\* The query of a bot read returns, or throws.
BotReadReturn(r) ==
  /\ req[r].kind \in {"botOrders", "botOrder"}
  /\ req[r].pc = "read"
  /\ \E ok \in BOOLEAN :
       SetReq(r, Respond(req[r], IF ok THEN BotReadResult(req[r])
                                 ELSE ErrorResponse(500, "db_error")))
  /\ UNCHANGED <<phase, pool, isDatabaseConnected, probeScheduled, botToken,
                 orders, order_items, calc, dishes, lastProbe>>

-----------------------------------------------------------------------------
(* POST /bot/dish/:id/toggle, PUT /admin/dishes/:id, POST /admin/dishes    *)

DishPrices == {Num(7 * Scale), Num(0), Str(<<"a", "b", "c">>)}

DishRequests(names) ==
  {[id |-> id, fields |-> f, price |-> p, is_available |-> a] :
     id \in 1..(MaxDishes + 1), f \in SUBSET names, p \in DishPrices, a \in BOOLEAN}

\* res.json({success: true, message, dish})
DishResponse ==
  [status |-> 200, success |-> "true", error |-> "", hasOrder |-> FALSE,
   order |-> NoOrder, orders |-> <<>>]

\* A variant of Unavailable with the wrong connective.
UnavailableBoth == ~isDatabaseConnected /\ ~pool

\* !isDatabaseConnected || !pool
Unavailable == ~isDatabaseConnected \/ ~pool

\* isNaN(parsedPrice) || parsedPrice <= 0
BadPrice(v) == parseFloat(v).t # "number" \/ parseFloat(v).n <= 0

\* The query of a dish handler is issued.
DishQuery(rq) == [rq EXCEPT !.mode = "real", !.pc = "dish_write", !.dbCalls = @ + 1]

\* The first turn of POST /bot/dish/:id/toggle.
ReceiveDishToggle(r) ==
  /\ phase = "listening"
  /\ req[r].kind = "none"
  /\ \E hdr \in AdminHeaders, d \in DishRequests({}) :
       LET rq == [NoReq EXCEPT !.kind = "dishToggle", !.hdr = hdr, !.dish = d,
                               !.flag = isDatabaseConnected]
       IN  SetReq(r, IF ~validateAdminApiKey(hdr)
                     THEN Respond(rq, ErrorResponse(401, "bad_api_key"))
                     ELSE IF Unavailable
                     THEN Respond(rq, ErrorResponse(503, "db_unavailable"))
                     ELSE DishQuery(rq))
  /\ UNCHANGED <<phase, pool, isDatabaseConnected, probeScheduled, botToken,
                 orders, order_items, calc, dishes, lastProbe>>

\* The first turn of PUT /admin/dishes/:id.
ReceiveDishUpdate(r) ==
  /\ phase = "listening"
  /\ req[r].kind = "none"
  /\ \E hdr \in AdminHeaders, d \in DishRequests({"price", "is_available", "other"}) :
       LET rq == [NoReq EXCEPT !.kind = "dishUpdate", !.hdr = hdr, !.dish = d,
                               !.flag = isDatabaseConnected]
       IN  SetReq(r, IF ~validateAdminApiKey(hdr)
                     THEN Respond(rq, ErrorResponse(401, "bad_api_key"))
                     ELSE IF d.fields = {}
                     THEN Respond(rq, ErrorResponse(400, "no_data"))
                     ELSE IF Unavailable
                     THEN Respond(rq, ErrorResponse(503, "db_unavailable"))
                     ELSE IF "price" \in d.fields /\ BadPrice(d.price)
                     THEN Respond(rq, ErrorResponse(400, "bad_price"))
                     ELSE IF d.fields \cap {"price", "is_available"} = {}
                     THEN Respond(rq, ErrorResponse(400, "no_valid_fields"))
                     ELSE DishQuery(rq))
  /\ UNCHANGED <<phase, pool, isDatabaseConnected, probeScheduled, botToken,
                 orders, order_items, calc, dishes, lastProbe>>

\* The first turn of POST /admin/dishes: !priceFromBody is true for an absent
\* price and for the number 0.
ReceiveDishCreate(r) ==
  /\ phase = "listening"
  /\ req[r].kind = "none"
  /\ \E hdr \in AdminHeaders, d \in DishRequests({"restaurant_id", "name", "price"}) :
       LET rq == [NoReq EXCEPT !.kind = "dishCreate", !.hdr = hdr, !.dish = d,
                               !.flag = isDatabaseConnected]
       IN  SetReq(r, IF ~validateAdminApiKey(hdr)
                     THEN Respond(rq, ErrorResponse(401, "bad_api_key"))
                     ELSE IF d.fields # {"restaurant_id", "name", "price"} \/ ~Truthy(d.price)
                     THEN Respond(rq, ErrorResponse(400, "required_fields"))
                     ELSE IF Unavailable
                     THEN Respond(rq, ErrorResponse(503, "db_unavailable"))
                     ELSE IF BadPrice(d.price)
                     THEN Respond(rq, ErrorResponse(400, "bad_price"))
                     ELSE DishQuery(rq))
  /\ UNCHANGED <<phase, pool, isDatabaseConnected, probeScheduled, botToken,
                 orders, order_items, calc, dishes, lastProbe>>

\* The dishes table after the statement of the request.
DishesAfter(rq) ==
  IF rq.kind = "dishCreate"
  THEN Append(dishes, [id |-> Len(dishes) + 1, price |-> parseFloat(rq.dish.price).n,
                       is_available |-> TRUE])
  ELSE [i \in 1..Len(dishes) |->
          IF dishes[i].id # rq.dish.id THEN dishes[i]
          ELSE IF rq.kind = "dishToggle"
          THEN [dishes[i] EXCEPT !.is_available = ~@]
          ELSE [dishes[i] EXCEPT
                  !.price = IF "price" \in rq.dish.fields
                            THEN parseFloat(rq.dish.price).n ELSE @,
                  !.is_available = IF "is_available" \in rq.dish.fields
                                   THEN rq.dish.is_available ELSE @]]

\* The statement of a dish handler returns its rows, or throws.
DishWriteReturn(r) ==
  /\ req[r].kind \in {"dishToggle", "dishUpdate", "dishCreate"}
  /\ req[r].pc = "dish_write"
  /\ \E ok \in BOOLEAN :
       IF ok /\ (req[r].kind = "dishCreate" \/ req[r].dish.id \in 1..Len(dishes))
       THEN /\ req[r].kind = "dishCreate" => Len(dishes) < MaxDishes
            /\ dishes' = DishesAfter(req[r])
            /\ SetReq(r, Respond([req[r] EXCEPT !.dbWrites = @ + 1], DishResponse))
       ELSE /\ SetReq(r, Respond(req[r],
                         IF ok THEN ErrorResponse(404, "dish_not_found")
                         ELSE ErrorResponse(500, "server_error")))
            /\ UNCHANGED dishes
  /\ UNCHANGED <<phase, pool, isDatabaseConnected, probeScheduled, botToken,
                 orders, order_items, calc, lastProbe>>

-----------------------------------------------------------------------------
(* Specification of the server                                             *)

\* The dishes table as the seed data leave it: one available dish.
SeededDishes == <<[id |-> 1, price |-> 5 * Scale, is_available |-> TRUE]>>

NoCalc ==
  [stage |-> "none", body |-> NoBody,
   priced |-> [totalAmount |-> Undefined, orderItems |-> <<>>],
   message |-> NoMsg, mockOrder |-> NoOrder, mockMessage |-> NoMsg]

Init ==
  /\ phase = "starting"
  /\ pool = FALSE
  /\ isDatabaseConnected = FALSE
  /\ probeScheduled = FALSE
  /\ botToken \in BOOLEAN
  /\ orders = <<>>
  /\ order_items = <<>>
  /\ req = [r \in Slots |-> NoReq]
  /\ calc = NoCalc
  /\ dishes = SeededDishes
  /\ lastProbe = "none"

Next ==
  \/ InitializeDatabase
  \/ Probe
  \/ \E r \in Slots : ReceiveOrder(r)
  \/ \E r \in Slots : InsertHeader(r)
  \/ \E r \in Slots : InsertItem(r)
  \/ \E r \in Slots : ReRead(r)
  \/ \E r \in Slots : NotifyReturn(r)
  \/ \E r \in Slots : ReceiveUserOrders(r)
  \/ \E r \in Slots : ReceiveUserOrdersLegacy(r)
  \/ \E r \in Slots : UserOrdersReturn(r)
  \/ \E r \in Slots : ReceiveBotOrders(r)
  \/ \E r \in Slots : ReceiveBotOrder(r)
  \/ \E r \in Slots : BotReadReturn(r)
  \/ \E r \in Slots : ReceiveBotStatus(r)
  \/ \E r \in Slots : BotStatusUpdate(r)
  \/ \E r \in Slots : BotStatusUser(r)
  \/ \E r \in Slots : BotStatusNotified(r)
  \/ \E r \in Slots : ReceiveAdminStatus(r)
  \/ \E r \in Slots : AdminStatusUpdate(r)
  \/ \E r \in Slots : Finish(r)

Spec == Init /\ [][Next]_vars

\* A store two submissions have filled: an order of user 1 with the line
\* items of <<ItemA, ItemB>>, and an order of user 2 submitted with items: [].
TwoOrders ==
  <<[id |-> 1, user_id |-> 1, total_amount |-> ToNumeric(PriceLoop(<<ItemA, ItemB>>).totalAmount),
     status |-> "pending", delivery_address |-> Str(<<"X">>)],
    [id |-> 2, user_id |-> 2, total_amount |-> 0,
     status |-> "pending", delivery_address |-> Str(<<"X">>)]>>

TwoOrdersItems ==
  <<OrderItemRow(1, OrderItem(ItemA)), OrderItemRow(1, OrderItem(ItemB))>>

\* The server connected to that store, after start-up.
InitStatus ==
  /\ phase = "listening"
  /\ pool = TRUE
  /\ isDatabaseConnected = TRUE
  /\ probeScheduled = TRUE
  /\ botToken \in BOOLEAN
  /\ orders = TwoOrders
  /\ order_items = TwoOrdersItems
  /\ req = [r \in Slots |-> NoReq]
  /\ calc = NoCalc
  /\ dishes = SeededDishes
  /\ lastProbe = "none"

\* The status updates and the reads of existing orders.
NextStatus ==
  \/ Probe
  \/ \E r \in Slots : ReceiveUserOrders(r)
  \/ \E r \in Slots : ReceiveUserOrdersLegacy(r)
  \/ \E r \in Slots : UserOrdersReturn(r)
  \/ \E r \in Slots : ReceiveBotOrders(r)
  \/ \E r \in Slots : ReceiveBotOrder(r)
  \/ \E r \in Slots : BotReadReturn(r)
  \/ \E r \in Slots : ReceiveBotStatus(r)
  \/ \E r \in Slots : BotStatusUpdate(r)
  \/ \E r \in Slots : BotStatusUser(r)
  \/ \E r \in Slots : BotStatusNotified(r)
  \/ \E r \in Slots : ReceiveAdminStatus(r)
  \/ \E r \in Slots : AdminStatusUpdate(r)
  \/ \E r \in Slots : Finish(r)

SpecStatus == InitStatus /\ [][NextStatus]_vars

\* The dish endpoints on their own.
NextDishes ==
  \/ InitializeDatabase
  \/ Probe
  \/ \E r \in Slots : ReceiveDishToggle(r)
  \/ \E r \in Slots : ReceiveDishUpdate(r)
  \/ \E r \in Slots : ReceiveDishCreate(r)
  \/ \E r \in Slots : DishWriteReturn(r)
  \/ \E r \in Slots : Finish(r)

SpecDishes == Init /\ [][NextDishes]_vars

\* POST /orders on its own, with the periodic probe.
NextOrders ==
  \/ InitializeDatabase
  \/ Probe
  \/ \E r \in Slots : ReceiveOrder(r)
  \/ \E r \in Slots : InsertHeader(r)
  \/ \E r \in Slots : InsertItem(r)
  \/ \E r \in Slots : ReRead(r)
  \/ \E r \in Slots : NotifyReturn(r)
  \/ \E r \in Slots : Finish(r)

\* Every pool.query settles, and axios.post settles (its timeout of 10 s
\* rejects the call at the latest): a handler suspended on one of them is
\* resumed.
FairOrders ==
  \A r \in Slots : /\ WF_vars(InsertHeader(r))
                   /\ WF_vars(InsertItem(r))
                   /\ WF_vars(ReRead(r))
                   /\ WF_vars(NotifyReturn(r))

SpecOrders == Init /\ [][NextOrders]_vars /\ FairOrders

\* Two order submissions in flight at once against a connected store.
InitTwo ==
  /\ phase = "listening"
  /\ pool = TRUE
  /\ isDatabaseConnected = TRUE
  /\ probeScheduled = TRUE
  /\ botToken = TRUE
  /\ orders = <<>>
  /\ order_items = <<>>
  /\ req = [r \in {1, 2} |-> NoReq]
  /\ calc = NoCalc
  /\ dishes = SeededDishes
  /\ lastProbe = "none"

\* The turns of the two handlers, taken in any interleaving; the requests
\* come from users 1 and 2 and carry one of two item lists.
NextTwo ==
  \/ \E r \in DOMAIN req :
       ReceiveOrderFrom(r,
         {[authorization |-> [scheme |-> "bearer", valid |-> TRUE, id |-> u],
           xUserId |-> 0, adminKey |-> "none"] : u \in Users},
         {[restaurant_id |-> One, items |-> [present |-> TRUE, list |-> l],
           delivery_address |-> Str(<<"X">>), status |-> "", orderId |-> 0] :
            l \in {<<ItemA, ItemB>>, <<ItemD>>}})
  \/ \E r \in DOMAIN req : InsertHeader(r)
  \/ \E r \in DOMAIN req : InsertItem(r)
  \/ \E r \in DOMAIN req : ReRead(r)
  \/ \E r \in DOMAIN req : NotifyReturn(r)
  \/ \E r \in DOMAIN req : Finish(r)

SpecTwo == InitTwo /\ [][NextTwo]_vars

-----------------------------------------------------------------------------
(* The calculations of POST /orders on their own, over a wide domain of    *)
(* items: each step applies one of them to the same request body           *)

PriceValues ==
  {Undefined, Num(0), Num(20 * Scale), Str(<<"1", "0", ".", "5">>), Str(<<"a", "b", "c">>)}

QuantityValues ==
  {Undefined, Num(0), Num(2 * Scale), Num(2 * Scale + Scale \div 2),
   Str(<<"3">>), Str(<<"a", "b", "c">>)}

WideItems ==
  {Item(2, "", "Soup", dp, p, dP, q) :
     dp \in PriceValues, p \in PriceValues, dP \in PriceValues, q \in QuantityValues}

\* The lists of sample items of length at most n.
RECURSIVE ListsUpTo(_)
ListsUpTo(n) ==
  IF n = 0 THEN {<<>>}
  ELSE ListsUpTo(n - 1) \cup
       {Append(l, it) : l \in {m \in ListsUpTo(n - 1) : Len(m) = n - 1}, it \in SampleItems}

WideLists ==
  {<<>>} \cup {Append(l, it) : l \in ListsUpTo(MaxItems - 1), it \in WideItems}

\* A body with the three required fields, and a total the client declares.
WideBodies ==
  {[restaurant_id |-> One, items |-> [present |-> TRUE, list |-> l],
    delivery_address |-> Str(<<"X">>), status |-> "", orderId |-> 0,
    total_amount |-> t] :
     l \in WideLists, t \in {Undefined, Num(999 * Scale)}}

InitPrice ==
  /\ phase = "starting"
  /\ pool = FALSE
  /\ isDatabaseConnected = FALSE
  /\ probeScheduled = FALSE
  /\ botToken = TRUE
  /\ orders = <<>>
  /\ order_items = <<>>
  /\ req = [r \in Slots |-> NoReq]
  /\ \E body \in WideBodies : calc = [NoCalc EXCEPT !.stage = "input", !.body = body]
  /\ dishes = SeededDishes
  /\ lastProbe = "none"

\* The price loop of the real branch.
CalcPrice ==
  /\ calc.stage = "input"
  /\ calc' = [calc EXCEPT !.stage = "priced", !.priced = PriceBody(calc.body)]
  /\ UNCHANGED <<phase, pool, isDatabaseConnected, probeScheduled, botToken,
                 orders, order_items, req, dishes, lastProbe>>

\* The notification of the real branch, for the order of key 1.
CalcNotification ==
  /\ calc.stage = "priced"
  /\ calc' = [calc EXCEPT !.stage = "notified",
                          !.message = TelegramMessage(
                                        NotificationData(RowId(1), calc.body.items.list))]
  /\ UNCHANGED <<phase, pool, isDatabaseConnected, probeScheduled, botToken,
                 orders, order_items, req, dishes, lastProbe>>

CalcMockWith(order) ==
  calc' = [calc EXCEPT !.stage = "mocked", !.mockOrder = order,
                       !.mockMessage = TelegramMessage(
                                         MockNotificationData(order, calc.body.items.list))]

\* The synthesized order of the mock branch and its notification.
CalcMock ==
  /\ calc.stage = "notified"
  /\ \E now \in NowValues : CalcMockWith(MockOrder(now, calc.body.items.list))
  /\ UNCHANGED <<phase, pool, isDatabaseConnected, probeScheduled, botToken,
                 orders, order_items, req, dishes, lastProbe>>

NextPrice == CalcPrice \/ CalcNotification \/ CalcMock

SpecPrice == InitPrice /\ [][NextPrice]_vars

-----------------------------------------------------------------------------
(* Properties of order creation                                            *)

\* The request carries an identity POST /orders accepts.
Authenticated(rq) == rq.hdr.authorization.scheme = "bearer" /\ rq.hdr.authorization.valid

\* The three required fields are present.
FieldsPresent(body) ==
  /\ body.restaurant_id # Undefined
  /\ body.items.present
  /\ body.delivery_address # Undefined

\* The order_items rows of order id.
ItemRowsOf(id) == {i \in 1..Len(order_items) : order_items[i].order_id = id}

\* C1: for every submitted item list, including lists whose items carry the
\* price only under dishPrice, the total of the notification message equals
\* the total persisted with the order.
C1_MessageTotalIsPersistedTotal ==
  \A r \in Slots :
    (req[r].kind = "postOrder" /\ req[r].mode = "real" /\ req[r].sends > 0)
      => req[r].msg.totalAmount = Num(orders[req[r].loc.order].total_amount)

\* C2: with the availability flag false, POST /orders answers a valid request
\* with success and an order carrying a synthesized id, the status pending
\* and the submitted items in order; it makes no call to the store, and it
\* has called the dispatcher exactly once by the time it responds.
C2_DegradedOrderSynthesized ==
  \A r \in Slots :
    (req[r].kind = "postOrder" /\ ~req[r].flag /\ Authenticated(req[r])
       /\ FieldsPresent(req[r].body))
      => /\ req[r].pc \in {"notify", "done"}
         /\ req[r].notifyCalls = 1
         /\ req[r].dbCalls = 0 /\ req[r].dbWrites = 0
         /\ req[r].pc = "notify" => req[r].resp = NoResp
         /\ req[r].pc = "done" =>
              /\ req[r].resp.status = 200 /\ req[r].resp.success = "true"
              /\ req[r].resp.hasOrder
              /\ req[r].resp.order.id.synthesized
              /\ req[r].resp.order.status = "pending"
              /\ Len(req[r].resp.order.items) = Len(req[r].body.items.list)
              /\ \A i \in 1..Len(req[r].body.items.list) :
                   req[r].resp.order.items[i].dish_id = req[r].body.items.list[i].dish_id

\* A degraded-mode order of two items has been answered.
C2_Witness ==
  \E r \in Slots :
    /\ req[r].kind = "postOrder" /\ req[r].pc = "done" /\ ~req[r].flag
    /\ Authenticated(req[r])
    /\ Len(req[r].body.items.list) = 2
    /\ req[r].resp.status = 200 /\ req[r].resp.order.id.synthesized
    /\ req[r].notifyCalls = 1

\* C3: POST /orders answers every authenticated request that carries the
\* required fields and at least one item with success, also when a storage
\* operation fails during order creation.
C3_StorageFailureFallsBack ==
  \A r \in Slots :
    (req[r].kind = "postOrder" /\ req[r].pc = "done" /\ Authenticated(req[r])
       /\ FieldsPresent(req[r].body) /\ req[r].body.items.list # <<>>)
      => req[r].resp.status = 200 /\ req[r].resp.success = "true"

\* C4: POST /orders has called the dispatcher by the time it responds to an
\* accepted order, whatever the outcome of persistence.
C4_DispatcherCalledBeforeResponse ==
  \A r \in Slots :
    (req[r].kind = "postOrder" /\ req[r].pc = "done" /\ Authenticated(req[r])
       /\ FieldsPresent(req[r].body) /\ req[r].body.items.list # <<>>)
      => req[r].notifyCalls >= 1

\* C5: whatever the outcome of the notification (delivered, timeout, non-2xx
\* reply, network error, or no bot token), POST /orders and
\* PUT /bot/orders/:id/status send the success response computed before it,
\* and what they wrote to the store is still there.
C5_NotificationOutcomeIgnored ==
  \A r \in Slots :
    (req[r].pc = "done" /\ (req[r].outcome # "none" \/ req[r].notifyCalls > 0))
      => /\ req[r].resp.status = 200 /\ req[r].resp.success = "true"
         /\ req[r].resp.hasOrder
         /\ (req[r].kind = "postOrder" /\ req[r].mode = "real") =>
              /\ req[r].resp.order = CreatedOrder(req[r].loc.fullOrder)
              /\ req[r].loc.order \in 1..Len(orders)
              /\ orders[req[r].loc.order].total_amount = req[r].loc.totalAmount.n
              /\ Cardinality(ItemRowsOf(req[r].loc.order)) = Len(req[r].loc.orderItems)
         /\ (req[r].kind = "postOrder" /\ req[r].mode = "mock") =>
              /\ req[r].resp.order = req[r].loc.mockOrder
              /\ req[r].dbWrites = 0
         /\ req[r].kind = "botStatus" =>
              /\ req[r].resp.order.status = req[r].body.status
              /\ orders[req[r].body.orderId].status = req[r].body.status

\* An order was created in the store and its notification timed out.
C5_Witness ==
  \E r \in Slots :
    /\ req[r].kind = "postOrder" /\ req[r].mode = "real" /\ req[r].pc = "done"
    /\ req[r].outcome = "timeout"
    /\ req[r].resp.status = 200
    /\ Len(orders) = 1

\* C6: in both modes, an authenticated POST /orders that lacks restaurant_id,
\* items or delivery_address is answered 400 and goes no further: no call to
\* the store, no order, no notification.
C6_MissingFieldRejected ==
  \A r \in Slots :
    (req[r].kind = "postOrder" /\ Authenticated(req[r]) /\ ~FieldsPresent(req[r].body))
      => /\ req[r].pc = "done"
         /\ req[r].resp.status = 400 /\ req[r].resp.success = "false"
         /\ ~req[r].resp.hasOrder
         /\ req[r].mode = "none"
         /\ req[r].dbCalls = 0 /\ req[r].dbWrites = 0
         /\ req[r].notifyCalls = 0 /\ req[r].sends = 0

\* With the store available, a request without delivery_address was rejected.
C6_Witness ==
  \E r \in Slots :
    /\ req[r].kind = "postOrder" /\ req[r].pc = "done" /\ Authenticated(req[r])
    /\ isDatabaseConnected /\ pool /\ req[r].flag
    /\ req[r].body.restaurant_id # Undefined /\ req[r].body.items.present
    /\ req[r].body.items.list # <<>>
    /\ req[r].body.delivery_address = Undefined
    /\ req[r].resp.status = 400

\* C7: an authenticated POST /orders whose items list is empty is rejected
\* with 400: no order is created and no notification is sent.
C7_EmptyItemsRejected ==
  \A r \in Slots :
    (req[r].kind = "postOrder" /\ Authenticated(req[r])
       /\ req[r].body.items.present /\ req[r].body.items.list = <<>>)
      => /\ req[r].pc = "done"
         /\ req[r].resp.status = 400
         /\ req[r].dbWrites = 0 /\ req[r].notifyCalls = 0

\* The credential the route of the request asks for is present and valid.
Credentialed(rq) ==
  IF rq.kind \in {"botStatus", "adminStatus"} THEN rq.hdr.adminKey = "right"
  ELSE Authenticated(rq)

-----------------------------------------------------------------------------
(* Properties of the calculations                                          *)

\* The value of a price field in hundredths, 0 when it does not parse.
AmountOf(v) == IF parseFloat(v).t = "number" THEN parseFloat(v).n ELSE 0

\* The unit price: the first of dish_price, price, dishPrice that has a
\* value other than 0, else 0.
FirstAmount(a, b, c) == IF a # 0 THEN a ELSE IF b # 0 THEN b ELSE c

ResolvedPrice(item) ==
  FirstAmount(AmountOf(item.dish_price), AmountOf(item.price), AmountOf(item.dishPrice))

\* The quantity as an integer, 1 when it is missing, does not parse or is 0.
WholeOr1(q) == IF q.t = "number" /\ q.n # 0 THEN q.n \div Scale ELSE 1

ResolvedQuantity(item) == WholeOr1(parseInt(item.quantity))

\* The sum over the items of resolved price times resolved quantity.
RECURSIVE SumOfLines(_)
SumOfLines(items) ==
  IF items = <<>> THEN 0
  ELSE SumOfLines(SubSeq(items, 1, Len(items) - 1))
       + ResolvedPrice(items[Len(items)]) * ResolvedQuantity(items[Len(items)])

\* C9: the total the price loop of order creation computes (the total the
\* real branch persists) is the sum over the submitted items
\* of resolved unit price times resolved quantity, whatever total the client
\* declares; {price: "10.5", quantity: 2}, {dish_price: 20, quantity: "3"}
\* gives 81.
C9_TotalIsSumOfLines ==
  calc.stage \in {"priced", "notified", "mocked"}
    => /\ calc.priced.totalAmount = Num(SumOfLines(calc.body.items.list))
       /\ Len(calc.priced.orderItems) = Len(calc.body.items.list)
       /\ \A i \in 1..Len(calc.body.items.list) :
            calc.priced.orderItems[i].dish_price = Num(ResolvedPrice(calc.body.items.list[i]))
       /\ calc.body.items.list = <<ItemA, ItemB>>
            => calc.priced.totalAmount = Num(81 * Scale)

\* The example list has been priced, with a total declared by the client.
C9_Witness ==
  /\ calc.stage = "priced"
  /\ calc.body.items.list = <<ItemA, ItemB>>
  /\ calc.body.total_amount = Num(999 * Scale)
  /\ calc.priced.totalAmount = Num(81 * Scale)

\* C10: in every place a quantity is resolved (the persisted line items, the
\* synthesized order and its total, the notification), it is the submitted
\* quantity parsed as an integer, or 1 when missing or not parseable.
C10_QuantityParsedEverywhere ==
  calc.stage = "mocked"
    => \A i \in 1..Len(calc.body.items.list) :
         /\ calc.priced.orderItems[i].quantity
              = Num(Scale * ResolvedQuantity(calc.body.items.list[i]))
         /\ calc.message.lines[i].quantity
              = Num(Scale * ResolvedQuantity(calc.body.items.list[i]))
         /\ calc.mockMessage.lines[i].quantity
              = Num(Scale * ResolvedQuantity(calc.body.items.list[i]))
         /\ calc.mockOrder.items[i].quantity
              = Num(Scale * ResolvedQuantity(calc.body.items.list[i]))

-----------------------------------------------------------------------------
(* Properties of the status updates and the availability flag              *)

StatusKinds == {"botStatus", "adminStatus"}

\* The five status values.
OrderStatuses == {"pending", "preparing", "delivering", "delivered", "cancelled"}

HasAdminKey(rq) == rq.hdr.adminKey = "right"

\* C11: a status update (admin or bot variant) whose status is missing or is
\* not one of the five values is answered 400 at once: no call to the store,
\* no write, no notification.
C11_InvalidStatusRejected ==
  \A r \in Slots :
    (req[r].kind \in StatusKinds /\ HasAdminKey(req[r])
       /\ req[r].body.status \notin OrderStatuses)
      => /\ req[r].pc = "done"
         /\ req[r].resp.status = 400 /\ req[r].resp.success = "false"
         /\ req[r].dbCalls = 0 /\ req[r].dbWrites = 0
         /\ req[r].sends = 0 /\ req[r].notifyCalls = 0

\* With the store available, the bot variant rejected an unknown status and
\* the orders are as they were.
C11_Witness ==
  \E r \in Slots :
    /\ req[r].kind = "botStatus" /\ req[r].pc = "done" /\ HasAdminKey(req[r])
    /\ req[r].body.status = "bogus" /\ req[r].body.orderId = 1
    /\ req[r].flag /\ isDatabaseConnected
    /\ req[r].resp.status = 400
    /\ orders = TwoOrders

\* C12: after a probe has failed the availability flag is false, and once a
\* later probe has succeeded it is true again.
C12_FlagFollowsLatestProbe ==
  /\ lastProbe = "failed" => ~isDatabaseConnected
  /\ lastProbe = "ok" => isDatabaseConnected

\* C13: with the availability flag false, a status update with a valid admin
\* key and a valid status reports success and has no durable effect, on the
\* admin variant and on the bot variant.
C13_DegradedStatusUpdateCosmetic ==
  \A r \in Slots :
    (req[r].kind \in StatusKinds /\ req[r].pc = "done" /\ HasAdminKey(req[r])
       /\ req[r].body.status \in OrderStatuses /\ ~req[r].flag)
      => /\ req[r].resp.status = 200 /\ req[r].resp.success = "true"
         /\ req[r].dbWrites = 0

DishKinds == {"dishToggle", "dishUpdate", "dishCreate"}

\* A price is a number above 0, or a string that parses to one.
PositivePrice(v) == parseFloat(v).t = "number" /\ parseFloat(v).n > 0

\* The body of a dish request is one its endpoint accepts.
ValidDishRequest(rq) ==
  CASE rq.kind = "dishToggle" -> TRUE
    [] rq.kind = "dishUpdate" ->
         /\ rq.dish.fields \cap {"price", "is_available"} # {}
         /\ "price" \in rq.dish.fields => PositivePrice(rq.dish.price)
    [] rq.kind = "dishCreate" ->
         /\ rq.dish.fields = {"restaurant_id", "name", "price"}
         /\ PositivePrice(rq.dish.price)
    [] OTHER -> FALSE

\* C14: with the availability flag false, every dish mutation endpoint
\* (toggle, update, create) called with a valid admin key and a valid body
\* answers 503 at once and makes no call to the store.
C14_DishMutationUnavailable ==
  \A r \in Slots :
    (req[r].kind \in DishKinds /\ HasAdminKey(req[r]) /\ ~req[r].flag
       /\ ValidDishRequest(req[r]))
      => /\ req[r].pc = "done"
         /\ req[r].resp.status = 503 /\ req[r].resp.success = "false"
         /\ req[r].dbCalls = 0 /\ req[r].dbWrites = 0

\* A Pool exists but the flag is false, and a dish creation with a valid body
\* was answered 503; the dishes are as seeded.
C14_Witness ==
  \E r \in Slots :
    /\ req[r].kind = "dishCreate" /\ req[r].pc = "done" /\ HasAdminKey(req[r])
    /\ ~req[r].flag /\ pool /\ ~isDatabaseConnected
    /\ ValidDishRequest(req[r])
    /\ req[r].resp.status = 503
    /\ dishes = SeededDishes

\* The owner of the order a status update names has a registered chat.
OwnerHasChat(rq) ==
  /\ rq.body.orderId \in 1..Len(orders)
  /\ orders[rq.body.orderId].user_id = 1

\* C15: when a status update (admin or bot variant) has been answered, a
\* status notification was attempted if and only if the update was applied
\* to the store and the order's owner has a registered chat (for the bot
\* variant: and the lookup of the chat returned).
C15_StatusNotificationIffChat ==
  \A r \in Slots :
    (req[r].kind \in StatusKinds /\ req[r].pc = "done")
      => (req[r].sends > 0
            <=> (req[r].dbWrites > 0 /\ OwnerHasChat(req[r])
                   /\ req[r].loc.lookup # "failed"))

\* No request is between two of its turns.
Quiescent == \A r \in Slots : req[r].pc \in {"idle", "done"}

\* The sum of dish_price * quantity over the rows of order id.
RECURSIVE SumOfRows(_, _)
SumOfRows(rows, id) ==
  IF rows = <<>> THEN 0
  ELSE SumOfRows(SubSeq(rows, 1, Len(rows) - 1), id)
       + (IF rows[Len(rows)].order_id = id
          THEN rows[Len(rows)].dish_price * rows[Len(rows)].quantity ELSE 0)

\* C16: whenever no request is in progress, the total amount of every stored
\* order is the sum of unit price times quantity over its stored line items.
C16_StoredTotalIsSumOfRows ==
  Quiescent =>
    \A i \in 1..Len(orders) : orders[i].total_amount = SumOfRows(order_items, orders[i].id)

\* The order a status request names.
Target(rq) == rq.body.orderId

\* C17: no step changes anything of an existing order but its status, and a
\* status changes only on the order a status update in flight names, to the
\* value it asks for: total amount, owner, delivery address and id of every
\* order stay, every line item stays, and no order or line item disappears.
C17_OnlyStatusChanges ==
  [][ /\ Len(orders') >= Len(orders)
      /\ \A i \in 1..Len(orders) :
           /\ orders'[i] = [orders[i] EXCEPT !.status = orders'[i].status]
           /\ orders'[i].status # orders[i].status =>
                \E r \in Slots : /\ req[r].kind \in StatusKinds
                                 /\ req[r].pc = "update"
                                 /\ Target(req[r]) = orders[i].id
                                 /\ req[r].body.status = orders'[i].status
      /\ Len(order_items') >= Len(order_items)
      /\ \A i \in 1..Len(order_items) : order_items'[i] = order_items[i]
    ]_vars

\* A status update has changed the status of order 1; order 2 and the line
\* items are as they were created.
C17_Witness ==
  \E r \in Slots :
    /\ req[r].kind \in StatusKinds
    /\ req[r].pc = "done"
    /\ req[r].dbWrites = 1
    /\ Target(req[r]) = 1
    /\ req[r].loc.was # req[r].body.status
    /\ orders[1] = [TwoOrders[1] EXCEPT !.status = req[r].body.status]
    /\ orders[2] = TwoOrders[2]
    /\ order_items = TwoOrdersItems

\* C18: a status update that reached the store has overwritten the status of
\* the order it names whatever the status was, and the response it sends
\* afterwards is a success that reports the requested value; a status update
\* with a valid key and a valid value on an existing order is only ever
\* refused because the store itself failed.
C18_StatusOverwritten ==
  \A r \in Slots :
    (req[r].kind \in StatusKinds /\ req[r].mode = "real") =>
      /\ req[r].dbWrites > 0 =>
           /\ orders[Target(req[r])].status = req[r].body.status
           /\ req[r].pc = "done" =>
                /\ req[r].resp.status = 200
                /\ req[r].resp.success = "true"
                /\ req[r].resp.order.status = req[r].body.status
      /\ (req[r].pc = "done" /\ Target(req[r]) \in 1..Len(orders)
            /\ req[r].resp.status # 200) =>
           /\ req[r].resp.status = 500
           /\ req[r].dbWrites = 0

\* An order that was delivered has been set back to pending.
C18_Witness ==
  \E r \in Slots :
    /\ req[r].kind \in StatusKinds
    /\ req[r].pc = "done"
    /\ req[r].dbWrites = 1
    /\ req[r].resp.status = 200
    /\ req[r].loc.was = "delivered"
    /\ req[r].body.status = "pending"
    /\ orders[Target(req[r])].status = "pending"


ReadKinds == {"userOrders", "userOrdersLegacy", "botOrders", "botOrder"}

\* The orders a response carries.
Returned(resp) == IF resp.hasOrder THEN <<resp.order>> ELSE resp.orders

\* C19: every order a read of the store returns (the caller's order list of
\* either snapshot, the bot order list, the bot single-order read) that has
\* no stored line item is returned with an empty item list.
C19_NoItemsReadAsEmptyList ==
  \A r \in Slots :
    (req[r].kind \in ReadKinds /\ req[r].pc = "done" /\ req[r].mode = "real"
       /\ req[r].resp.status = 200) =>
      \A i \in 1..Len(Returned(req[r].resp)) :
        ItemRowsOf(Returned(req[r].resp)[i].id.n) = {} =>
          Returned(req[r].resp)[i].items = <<>>

FailureStatuses == {400, 401, 404, 500, 503}

CoreKinds == {"postOrder"} \cup StatusKinds \cup ReadKinds

\* C20: every failure response of a core endpoint carries success = false
\* and an error message.
C20_FailureBodyStructured ==
  \A r \in Slots :
    (req[r].kind \in CoreKinds /\ req[r].pc = "done"
       /\ req[r].resp.status \in FailureStatuses) =>
      /\ req[r].resp.success = "false"
      /\ req[r].resp.error # ""


-----------------------------------------------------------------------------
(* Properties of the order pipeline over time                              *)

\* The submission of slot r has passed authentication and validation.
Accepted(rq) == rq.kind = "postOrder" /\ rq.mode \in {"real", "mock"}

\* A handler that has responded takes no further step but the release of
\* its slot.
RespondedOnce ==
  \A r \in Slots : req[r].pc = "done" => (req'[r] = req[r] \/ req'[r] = NoReq)

\* C21: every order submission that has passed validation eventually sends
\* its response, given that every storage call and the notification call
\* settles (the notification at the latest by its timeout), and it sends it
\* once.
C21_AnsweredExactlyOnce ==
  /\ \A r \in Slots : Accepted(req[r]) ~> (req[r].pc = "done" /\ req[r].resp # NoResp)
  /\ [][RespondedOnce]_vars

\* A real-mode submission has been answered after a timed-out notification.
C21_Witness ==
  \E r \in Slots :
    /\ Accepted(req[r]) /\ req[r].pc = "done"
    /\ req[r].mode = "real" /\ req[r].outcome = "timeout"
    /\ req[r].resp.status = 200


\* The rows of order_items written under order id, in the order written.
RowsOf(id) == LET Under(row) == row.order_id = id IN SelectSeq(order_items, Under)

\* The rows the first n line items of submission rq are written as.
RowsOfFirst(rq, n) == [i \in 1..n |-> OrderItemRow(rq.loc.order, rq.loc.orderItems[i])]

\* C22: a real-mode submission writes its header first, then its line
\* items one by one in input order, then re-reads the order, then attempts
\* the notification, then responds: while the header INSERT is pending
\* nothing is written; while item n is pending the header and exactly the
\* items before n are stored; the re-read is issued with every item stored;
\* the notification is attempted after the re-read; the success response is
\* sent after the notification attempt has finished; and every stored line
\* item names a stored header.
C22_RealPipelineOrdered ==
  /\ \A i \in 1..Len(order_items) : order_items[i].order_id \in 1..Len(orders)
  /\ \A r \in Slots :
       (req[r].kind = "postOrder" /\ req[r].mode = "real") =>
         /\ Len(req[r].loc.orderItems) = Len(req[r].body.items.list)
         /\ \A i \in 1..Len(req[r].loc.orderItems) :
              req[r].loc.orderItems[i].dish_id = req[r].body.items.list[i].dish_id
         /\ req[r].pc = "insert_header" =>
              /\ req[r].dbWrites = 0 /\ req[r].loc.order = 0
              /\ req[r].notifyCalls = 0 /\ req[r].resp = NoResp
         /\ req[r].pc = "insert_item" =>
              /\ req[r].loc.order \in 1..Len(orders)
              /\ RowsOf(req[r].loc.order) = RowsOfFirst(req[r], req[r].loc.idx - 1)
              /\ req[r].notifyCalls = 0 /\ req[r].resp = NoResp
         /\ req[r].pc = "reread" =>
              /\ req[r].loc.order \in 1..Len(orders)
              /\ RowsOf(req[r].loc.order) = RowsOfFirst(req[r], Len(req[r].loc.orderItems))
              /\ req[r].notifyCalls = 0 /\ req[r].resp = NoResp
         /\ req[r].pc = "notify" =>
              /\ req[r].loc.fullOrder.id = req[r].loc.order
              /\ req[r].loc.fullOrder.items = JsonAgg(order_items, req[r].loc.order)
              /\ req[r].notifyCalls = 1 /\ req[r].outcome = "none"
              /\ req[r].resp = NoResp
         /\ (req[r].pc = "done" /\ req[r].resp.status = 200) =>
              /\ req[r].loc.fullOrder.id = req[r].loc.order
              /\ RowsOf(req[r].loc.order) = RowsOfFirst(req[r], Len(req[r].loc.orderItems))
              /\ req[r].notifyCalls = 1
              /\ req[r].sends > 0 => req[r].outcome # "none"

\* A real-mode submission of two line items has been answered after its
\* notification was sent.
C22_Witness ==
  \E r \in Slots :
    /\ req[r].kind = "postOrder" /\ req[r].mode = "real" /\ req[r].pc = "done"
    /\ req[r].resp.status = 200
    /\ Len(req[r].loc.orderItems) = 2
    /\ Len(RowsOf(req[r].loc.order)) = 2
    /\ req[r].sends = 1 /\ req[r].outcome = "ok"


\* The handlers that test the availability flag.
FlagKinds == {"postOrder"} \cup ReadKinds \cup {"botStatus"}

\* C23: the mode of a request is the one the flag and the Pool gave in the
\* turn that received it, whatever the probe does to the flag afterwards: a
\* request on the real path was received with the flag true, has no
\* synthesized order and has called the dispatcher at most once; a request
\* on the degraded path never calls the store.
C23_ModeFixedAtReceipt ==
  \A r \in Slots :
    req[r].kind \in FlagKinds =>
      /\ req[r].mode = "real" =>
           /\ req[r].flag /\ pool
           /\ req[r].loc.mockOrder = NoOrder
           /\ req[r].notifyCalls <= 1 /\ req[r].sends <= 1
           /\ req[r].resp.hasOrder => ~req[r].resp.order.id.synthesized
      /\ req[r].mode = "mock" =>
           /\ ~(req[r].flag /\ pool)
           /\ req[r].dbCalls = 0 /\ req[r].dbWrites = 0
           /\ req[r].loc.order = 0

\* An order submission was received with the flag true, the probe has
\* cleared the flag since, and the submission has been answered with the
\* stored order after one notification.
C23_Witness ==
  \E r \in Slots :
    /\ req[r].kind = "postOrder" /\ req[r].mode = "real" /\ req[r].flag
    /\ ~isDatabaseConnected /\ lastProbe = "failed"
    /\ req[r].pc = "done" /\ req[r].resp.status = 200
    /\ ~req[r].resp.order.id.synthesized
    /\ req[r].sends = 1


\* C24: an order submission posts at most one notification message: none
\* when it is rejected by authentication or validation, none after a send
\* that failed or timed out, and the handler answers once its one send has
\* settled.
C24_AtMostOneSend ==
  \A r \in Slots :
    req[r].kind = "postOrder" =>
      /\ req[r].sends <= 1
      /\ req[r].sends <= req[r].notifyCalls
      /\ req[r].notifyCalls <= 1
      /\ req[r].resp.status \in {400, 401} =>
           /\ req[r].sends = 0 /\ req[r].notifyCalls = 0
      /\ req[r].outcome # "none" =>
           /\ req[r].sends = 1 /\ req[r].pc = "done"

\* A submission has been answered after its one send timed out.
C24_Witness ==
  \E r \in Slots :
    /\ req[r].kind = "postOrder" /\ req[r].pc = "done"
    /\ req[r].outcome = "timeout"
    /\ req[r].sends = 1


-----------------------------------------------------------------------------
(* Properties of the notification message and of the two modes             *)

\* The sum of the subtotals the item lines of a message show.
RECURSIVE ShownSum(_)
ShownSum(lines) ==
  IF lines = <<>> THEN 0
  ELSE ShownSum(SubSeq(lines, 1, Len(lines) - 1)) + lines[Len(lines)].itemTotal.n

\* Each line of message msg shows unit price times quantity of the item it
\* stands for, and the total of the message is the sum of its lines.
LinesAddUp(msg, items) ==
  /\ Len(msg.lines) = Len(items)
  /\ \A i \in 1..Len(items) :
       msg.lines[i].itemTotal = Num(ResolvedPrice(items[i]) * ResolvedQuantity(items[i]))
  /\ msg.totalAmount = Num(ShownSum(msg.lines))

\* C25: in the new-order message of the real branch and in that of the mock
\* branch, every item line shows the item's unit price times its quantity,
\* and the total shown is the sum of the subtotals shown.
C25_MessageLinesAddUp ==
  /\ calc.stage \in {"notified", "mocked"} => LinesAddUp(calc.message, calc.body.items.list)
  /\ calc.stage = "mocked" => LinesAddUp(calc.mockMessage, calc.body.items.list)


\* The order POST /orders returns in real mode for the priced items: the
\* header and the line items as INSERTed, re-read and formatted.
RealOrderOf(priced) ==
  CreatedOrder([id           |-> 1,
                user_id      |-> 1,
                total_amount |-> Str(NumericToString(ToNumeric(priced.totalAmount))),
                status       |-> "pending",
                items        |-> [i \in 1..Len(priced.orderItems) |->
                                    JsonItem(OrderItemRow(1, priced.orderItems[i]))]])

\* C26: for the same submitted item list the order returned in real mode
\* and the order returned in degraded mode have the same total_amount and,
\* item by item, the same dish_price and quantity.
C26_SameOrderInBothModes ==
  calc.stage = "mocked" =>
    /\ RealOrderOf(calc.priced).total_amount = calc.mockOrder.total_amount
    /\ Len(RealOrderOf(calc.priced).items) = Len(calc.mockOrder.items)
    /\ \A i \in 1..Len(calc.mockOrder.items) :
         /\ RealOrderOf(calc.priced).items[i].dish_price = calc.mockOrder.items[i].dish_price
         /\ RealOrderOf(calc.priced).items[i].quantity = calc.mockOrder.items[i].quantity


\* An order appended to the store in this step is pending.
CreatedPending ==
  Len(orders') > Len(orders) =>
    \A i \in (Len(orders) + 1)..Len(orders') : orders'[i].status = "pending"

\* C27: whatever submissions and status updates have run, the status of
\* every stored order is one of the five statuses; an order is pending when
\* it is stored, and a synthesized order is pending.
C27_StatusAlwaysValid ==
  /\ [](\A i \in 1..Len(orders) : orders[i].status \in OrderStatuses)
  /\ [](\A r \in Slots :
          (req[r].kind = "postOrder" /\ req[r].mode = "mock") =>
            /\ req[r].loc.mockOrder.status = "pending"
            /\ req[r].resp.hasOrder => req[r].resp.order.status = "pending")
  /\ [][CreatedPending]_vars

\* A submitted order has been cancelled by a status update, and a later
\* update of it with an unknown status has been rejected.
C27_Witness ==
  \E r \in Slots :
    /\ Len(orders) = 1 /\ orders[1].status = "cancelled"
    /\ req[r].kind \in StatusKinds /\ req[r].pc = "done"
    /\ Target(req[r]) = 1
    /\ req[r].body.status = "bogus"
    /\ req[r].resp.status = 400


-----------------------------------------------------------------------------
(* Properties of submissions in flight at once                             *)

\* The items of submission rq as a composite read returns them.
OwnItems(rq) ==
  [i \in 1..Len(rq.loc.orderItems) |->
     JsonItem(OrderItemRow(rq.loc.order, rq.loc.orderItems[i]))]

\* C28: with submissions in flight at once, interleaved at their storage
\* calls, every submission has a header of its own; the line items stored
\* under its header are its own items, in input order; the order it re-reads
\* and returns has its own id and only its own items; and the notification
\* it sends carries its own id and one line for each of its own items.
C28_SubmissionsDoNotMix ==
  /\ \A r1, r2 \in DOMAIN req :
       (r1 # r2 /\ req[r1].loc.order # 0) => req[r1].loc.order # req[r2].loc.order
  /\ \A r \in DOMAIN req :
       (req[r].kind = "postOrder" /\ req[r].mode = "real" /\ req[r].loc.order # 0) =>
         /\ orders[req[r].loc.order].user_id = req[r].userId
         /\ orders[req[r].loc.order].total_amount = ToNumeric(req[r].loc.totalAmount)
         /\ RowsOf(req[r].loc.order)
              = RowsOfFirst(req[r], IF req[r].pc = "insert_item" THEN req[r].loc.idx - 1
                                    ELSE Len(RowsOf(req[r].loc.order)))
         /\ Len(RowsOf(req[r].loc.order)) <= Len(req[r].loc.orderItems)
         /\ req[r].pc \in {"reread", "notify"} =>
              Len(RowsOf(req[r].loc.order)) = Len(req[r].loc.orderItems)
         /\ req[r].pc = "notify" \/ (req[r].pc = "done" /\ req[r].resp.status = 200) =>
              /\ req[r].loc.fullOrder.id = req[r].loc.order
              /\ req[r].loc.fullOrder.items = OwnItems(req[r])
              /\ req[r].msg.id = RowId(req[r].loc.order)
              /\ Len(req[r].msg.lines) = Len(req[r].body.items.list)
              /\ \A i \in 1..Len(req[r].body.items.list) :
                   req[r].msg.lines[i].dishName = DishName(req[r].body.items.list[i])
         /\ (req[r].pc = "done" /\ req[r].resp.status = 200) =>
              /\ req[r].resp.order.id = RowId(req[r].loc.order)
              /\ req[r].resp.order.items = OwnItems(req[r])

\* Two submissions with different items have interleaved their INSERTs (the
\* header of the second was written before the first item of the first),
\* and both have been answered.
C28_Witness ==
  /\ req[1].kind = "postOrder" /\ req[2].kind = "postOrder"
  /\ req[1].pc = "done" /\ req[2].pc = "done"
  /\ req[1].resp.status = 200 /\ req[2].resp.status = 200
  /\ req[1].body.items.list # req[2].body.items.list
  /\ req[1].loc.order = 1 /\ req[2].loc.order = 2
  /\ Len(order_items) = 3
  /\ order_items[1].order_id = 2
  /\ order_items[2].order_id = 1


-----------------------------------------------------------------------------
(* Properties of the caller's order list and of start-up                   *)

\* The rows of the orders table that belong to userId.
OwnRows(userId) == LET Own(row) == row.user_id = userId IN SelectSeq(orders, Own)

Degraded(rq) == rq.mode # "real" /\ rq.dbCalls = 0 /\ rq.dbWrites = 0

\* C30: the flag is true only after a start-up that created the Pool, passed
\* the connection test and the schema setup and scheduled the probe; after a
\* start-up without connection data or with a failed connection test no
\* probe is scheduled or ever runs, the flag is false from then on, and
\* every request is served without the store.
C30_FlagOnlyAfterStartup ==
  /\ isDatabaseConnected => (phase = "listening" /\ pool /\ probeScheduled)
  /\ ~pool => ~probeScheduled
  /\ (phase = "listening" /\ ~probeScheduled) =>
       /\ ~isDatabaseConnected
       /\ lastProbe = "none"
       /\ \A r \in Slots : req[r].kind # "none" => Degraded(req[r])

=============================================================================
